---------------------------- MODULE Spec2Model ----------------------------
(***************************************************************************)
(* Model of the XAU SiRiX cluster bot: the rolling-window cluster detector *)
(* (src/core/cluster_engine.py), the daily loss circuit breaker            *)
(* (src/core/risk.py), the per-engine order lifecycle                      *)
(* (src/strategies/chandelier.py, src/mt5/execution.py) and the polling    *)
(* loop that drives them (src/main.py), the feed's seen-orders cache       *)
(* (src/sirix/api.py) and the direction decision (decide_direction).       *)
(*                                                                         *)
(* Conventions.  Prices are integers in units of the symbol's point, so    *)
(* round(x, digits) is the identity on them.  Event open times are         *)
(* integers in units of 1/UnitsPerSecond second.  Wall-clock time is in    *)
(* minutes, the cache's clock is in hours.  Python's None is NoTime for a  *)
(* datetime and "none" for a side.                                         *)
(* Engines are configured with use_tp_exit = False, so every take-profit   *)
(* is None and is left out of the records.                                 *)
(***************************************************************************)
EXTENDS Integers, Sequences, FiniteSets, TLC

VARIABLES
    cfg,                \* engine -> StrategyConfig (loaded once at startup)
    events,             \* engine -> ClusterEngine.events
    last_cluster_time,  \* engine -> ClusterEngine.last_cluster_time
    last_cluster_side,  \* engine -> ClusterEngine.last_cluster_side
    cluster_ret,        \* engine -> value returned by the last add_events call
    risk_pnl,           \* realized + floating P&L per engine, as last queried
    breach,             \* run_loop's breach (result of check_daily_loss_limits)
    breach_reason,      \* run_loop's breach_reason
    open_positions,     \* engine -> (ticket -> BotPositionInfo)
    pending_orders,     \* engine -> (ticket -> created_at)
    pending_meta,       \* engine -> (ticket -> PendingOrderMeta)
    cooldown_until,     \* engine -> cooldown_until_utc
    venue_orders,       \* the venue's pending orders: ticket -> order
    venue_positions,    \* the venue's open positions: ticket -> position
    next_ticket,        \* the ticket the venue hands out next
    trade_stops_level,  \* SYMBOL_INFO.trade_stops_level, read once at startup
    pc,                 \* where run_loop stands in its iteration
    idx,                \* the engine the current per-engine loop is at
    now,                \* wall clock, minutes
    ntz_active,         \* run_loop's ntz_active
    new_events,         \* run_loop's new_events of this iteration
    placed_in_tick,     \* history: a pending order was placed in this iteration
    be_latched,         \* history: venue positions whose breakeven_hit was set
    recent_place,       \* history: engine -> time of its last successful
                        \*   placement while that is less than the cooldown ago
    env,                \* the run's surroundings: the number of orders the
                        \*   venue accepts, who trades on the feed, the spread
                        \*   and the market frames decide_direction can read
    seen_store,         \* SeenOrdersCache._store: order_id -> first_seen_utc
    cache_now,          \* the clock the cache reads, hours
    cache_ret,          \* the last cache operation and what it returned
    last_emit,          \* history: order_id -> time build_new_events last
                        \*   emitted an event for it
    pure_call           \* the last call of a pure function: inputs and result

clusterVars == <<events, last_cluster_time, last_cluster_side, cluster_ret>>
riskVars    == <<risk_pnl, breach, breach_reason>>
engineVars  == <<open_positions, pending_orders, pending_meta, cooldown_until>>
venueVars   == <<venue_orders, venue_positions, next_ticket>>
loopVars    == <<pc, idx, now, ntz_active, new_events, placed_in_tick>>
cacheVars   == <<seen_store, cache_now, cache_ret, last_emit>>
asideVars   == <<env, cacheVars, pure_call>>

vars == <<cfg, clusterVars, riskVars, engineVars, venueVars, trade_stops_level,
          loopVars, be_latched, recent_place, env, cacheVars,
          pure_call>>

--------------------------------------------------------------------------
(* Bounds of the model *)

UnitsPerSecond == 2     \* resolution of event open times
MaxEvTime      == 3     \* event open times are 0..MaxEvTime
NumUsers       == 2     \* SiRiX participants 1..NumUsers
MaxBatch       == 2     \* events in one add_events batch
MaxWindow      == 4     \* events kept in a window (longer feeds are cut off)

MaxRiskEngines == 3     \* engines handed to check_daily_loss_limits on its own
MaxPx          == 12    \* prices are 0..MaxPx points
MidPx          == 6     \* the quote (bid = ask) when an entry is placed
MaxStopsLevel  == 4     \* the broker's trade_stops_level is 0 or this
MaxNow         == 3     \* the wall clock stops at MaxNow minutes
MaxTickets     == 1     \* the venue accepts this many orders
MaxLoopWindow  == 1     \* events a window holds in the polling loop
MaxRange       == 2     \* the lookback's high / low is within this of the close
NumOrderIds    == 2     \* SiRiX order ids 1..NumOrderIds
CacheTickHours == 12    \* the cache's clock advances in steps of this many hours
MaxCacheNow    == 72    \* the cache's clock stops at MaxCacheNow hours
BandDen        == 4     \* vwap_band_pct is a multiple of 1 / BandDen
VwapPx         == 4     \* the VWAP of the frames decide_direction reads

(* Program constants *)

CLUSTER_REFRACTORY_SECONDS  == 1
USE_DAILY_LOSS_LIMITS       == TRUE
DAILY_LOSS_LIMIT_TOTAL      == 1000
DAILY_LOSS_LIMIT_PER_ENGINE == 500
TRADE_COOLDOWN_SECONDS      == 120
PENDING_ORDER_TIMEOUT_MIN   == 3
USE_SESSION_FILTER          == FALSE
SEEN_ORDERS_MAX_AGE_HOURS   == 24
NoTime == -1
NoR    == -1
NaN    == -1

Engines == {1, 2}
Sides   == {"buy", "sell"}
Users   == 1..NumUsers
EvTimes == 0..MaxEvTime

SirixPositionEvent == [user_id : Users, side : Sides, time : EvTimes]

RECURSIVE SeqsUpTo(_, _)
SeqsUpTo(S, n) ==
    IF n = 0 THEN {<<>>}
    ELSE LET shorter == SeqsUpTo(S, n - 1)
         IN  shorter \cup {Append(s, x) : s \in {q \in shorter : Len(q) = n - 1}, x \in S}

Batches == SeqsUpTo(SirixPositionEvent, MaxBatch)

--------------------------------------------------------------------------
(* ClusterEngine *)

\* the popleft loop of add_events: drop head events older than the cutoff
RECURSIVE TrimWindow(_, _)
TrimWindow(evs, cutoff) ==
    IF evs # <<>> /\ Head(evs).time < cutoff
    THEN TrimWindow(Tail(evs), cutoff)
    ELSE evs

UniqueUsers_PerEvent(evs, side) == {j \in 1..Len(evs) : evs[j].side = side}

UniqueUsers(evs, side) ==
    {evs[i].user_id : i \in {j \in 1..Len(evs) : evs[j].side = side}}

ClusterSide_Majority(evs, k_unique) ==
    LET nb == Cardinality(UniqueUsers(evs, "buy"))
        ns == Cardinality(UniqueUsers(evs, "sell"))
    IN  IF nb >= k_unique /\ nb >= ns THEN "buy"
        ELSE IF ns >= k_unique THEN "sell"
        ELSE "none"

ClusterSide(evs, k_unique) ==
    IF Cardinality(UniqueUsers(evs, "buy")) >= k_unique THEN "buy"
    ELSE IF Cardinality(UniqueUsers(evs, "sell")) >= k_unique THEN "sell"
    ELSE "none"

RefractoryActive_ZeroLength(lct, lcs, cluster_side, latest_time) ==
    /\ lct # NoTime
    /\ lcs = cluster_side
    /\ latest_time - lct < 0

RefractoryActive_AnySide(lct, lcs, cluster_side, latest_time) ==
    /\ lct # NoTime
    /\ latest_time - lct < CLUSTER_REFRACTORY_SECONDS * UnitsPerSecond

RefractoryActive(lct, lcs, cluster_side, latest_time) ==
    /\ lct # NoTime
    /\ lcs = cluster_side
    /\ latest_time - lct < CLUSTER_REFRACTORY_SECONDS * UnitsPerSecond

AddEvents_RecordsSuppressed(evs, lct, lcs, new_evs, window_seconds, k_unique) ==
    LET appended == evs \o new_evs
    IN  IF appended = <<>>
        THEN [events |-> appended, last_cluster_time |-> lct,
              last_cluster_side |-> lcs, ret |-> "none"]
        ELSE
        LET latest_time == appended[Len(appended)].time
            window      == TrimWindow(appended, latest_time - window_seconds * UnitsPerSecond)
            side        == ClusterSide(window, k_unique)
        IN  IF side = "none"
            THEN [events |-> window, last_cluster_time |-> lct,
                  last_cluster_side |-> lcs, ret |-> "none"]
            ELSE [events |-> window, last_cluster_time |-> latest_time,
                  last_cluster_side |-> side,
                  ret |-> IF RefractoryActive(lct, lcs, side, latest_time)
                          THEN "none" ELSE side]

\* ClusterEngine.add_events: the detector state after the call and its result
AddEvents(evs, lct, lcs, new_evs, window_seconds, k_unique) ==
    LET appended == evs \o new_evs
        same(w)  == [events |-> w, last_cluster_time |-> lct,
                     last_cluster_side |-> lcs, ret |-> "none"]
    IN  IF appended = <<>> THEN same(appended)
        ELSE
        LET latest_time == appended[Len(appended)].time
            cutoff      == latest_time - window_seconds * UnitsPerSecond
            window      == TrimWindow(appended, cutoff)
            side        == ClusterSide(window, k_unique)
        IN  IF window = <<>> THEN same(window)
            ELSE IF side = "none" THEN same(window)
            ELSE IF RefractoryActive(lct, lcs, side, latest_time) THEN same(window)
            ELSE [events |-> window, last_cluster_time |-> latest_time,
                  last_cluster_side |-> side, ret |-> side]

--------------------------------------------------------------------------
(* Risk supervisor *)

\* daily P&L values a venue query may report for one engine
PnlValues == {-DAILY_LOSS_LIMIT_PER_ENGINE, -400, -200, 0, 300}

NoReason == [kind |-> "", engine |-> 0, pnl |-> 0]

RECURSIVE SumSeq(_)
SumSeq(q) == IF q = <<>> THEN 0 ELSE Head(q) + SumSeq(Tail(q))

EngineLimitHit_Strict(pnl) == pnl < -DAILY_LOSS_LIMIT_PER_ENGINE

EngineLimitHit(pnl) == pnl <= -DAILY_LOSS_LIMIT_PER_ENGINE

TotalLimitHit(total_pnl) == total_pnl <= -DAILY_LOSS_LIMIT_TOTAL

\* the loop over strategies: the first engine, in list order, at its limit
RECURSIVE FirstEngineHit(_, _)
FirstEngineHit(pnls, i) ==
    IF i > Len(pnls) THEN 0
    ELSE IF EngineLimitHit(pnls[i]) THEN i
    ELSE FirstEngineHit(pnls, i + 1)

\* check_daily_loss_limits; pnls[i] is realized_pnl_today + floating_pnl of
\* the i-th strategy
CheckDailyLossLimits(pnls) ==
    IF ~USE_DAILY_LOSS_LIMITS THEN [breach |-> FALSE, reason |-> NoReason]
    ELSE LET i == FirstEngineHit(pnls, 1)
         IN  IF i # 0
             THEN [breach |-> TRUE,
                   reason |-> [kind |-> "ENGINE_DAILY_LOSS_LIMIT",
                               engine |-> i, pnl |-> pnls[i]]]
             ELSE IF TotalLimitHit(SumSeq(pnls))
             THEN [breach |-> TRUE,
                   reason |-> [kind |-> "TOTAL_DAILY_LOSS_LIMIT",
                               engine |-> 0, pnl |-> SumSeq(pnls)]]
             ELSE [breach |-> FALSE, reason |-> NoReason]

--------------------------------------------------------------------------
(* Execution layer (src/mt5/execution.py) *)

Tickets == 1..(MaxTickets + 1)

Abs(x) == IF x < 0 THEN -x ELSE x
Max2(a, b) == IF a >= b THEN a ELSE b
Min2(a, b) == IF a <= b THEN a ELSE b

\* dict.pop for every key in S
Drop(f, S) == [t \in DOMAIN f \ S |-> f[t]]

\* enforce_stop_level: min_dist = trade_stops_level * point, point = 1
EnforceStopLevel(order_type, price, sl, level) ==
    IF level > 0
    THEN IF order_type = "buy"
         THEN (IF price - sl < level THEN price - level ELSE sl)
         ELSE (IF sl - price < level THEN price + level ELSE sl)
    ELSE sl

\* calc_sl_tp; atr_val = NoR stands for atr_val is None
CalcSlTp(side, entry_price, c, atr_val, level) ==
    LET sl_dist == IF c.stop_mode = "fixed" \/ atr_val = NoR
                   THEN c.sl_distance
                   ELSE c.atr_init_mult * atr_val
        sl      == IF side = "buy" THEN entry_price - sl_dist
                                   ELSE entry_price + sl_dist
    IN  EnforceStopLevel(side, entry_price, sl, level)

PendingRequest_AtQuote(trade_side, c, bid, ask, atr_val, level) ==
    LET entry_price == IF trade_side = "buy" THEN bid ELSE ask
        sl_price    == CalcSlTp(trade_side, entry_price, c, NoR, level)
    IN  [magic |-> c.magic, side |-> trade_side, price |-> entry_price,
         sl |-> EnforceStopLevel(trade_side, entry_price, sl_price, level)]

\* place_pending_entry up to order_send: the request it builds
PendingRequest(trade_side, c, bid, ask, atr_val, level) ==
    LET entry_price == IF trade_side = "buy" THEN bid - c.limit_offset
                                             ELSE ask + c.limit_offset
        atr_used    == IF c.stop_mode \in {"atr_static", "atr_trailing", "chandelier"}
                       THEN atr_val ELSE NoR
        sl_price    == CalcSlTp(trade_side, entry_price, c, atr_used, level)
    IN  [magic |-> c.magic, side |-> trade_side, price |-> entry_price,
         sl |-> EnforceStopLevel(trade_side, entry_price, sl_price, level)]

\* get_positions_for_strategy: a fresh BotPositionInfo per venue position
GetPositionsForStrategy(vpos, magic) ==
    [t \in {u \in DOMAIN vpos : vpos[u].magic = magic} |->
        [direction        |-> vpos[t].type,
         entry_time       |-> vpos[t].time,
         entry_price      |-> vpos[t].price_open,
         sl_price         |-> vpos[t].sl,
         initial_sl_price |-> vpos[t].sl,
         trade_mode       |-> "inverse",
         breakeven_hit    |-> FALSE]]

\* the merge loop of refresh_and_log_closes for a ticket tracked before
MergeTracked(cur, prev_info) ==
    [cur EXCEPT !.initial_sl_price = prev_info.initial_sl_price,
                !.trade_mode       = prev_info.trade_mode,
                !.breakeven_hit    = prev_info.breakeven_hit]

\* the new-fill and merge handling of a ticket not tracked before
MergeNew(cur, meta_known, meta) ==
    [cur EXCEPT !.initial_sl_price = cur.sl_price,
                !.trade_mode = IF meta_known THEN meta.trade_mode
                                             ELSE cur.trade_mode]

\* the position loop of close_position / modify_sl_tp: ticket and magic match
LivePosition(vpos, t, magic) == t \in DOMAIN vpos /\ vpos[t].magic = magic

--------------------------------------------------------------------------
(* Strategy (src/strategies/chandelier.py) *)

InverseSide(side) == IF side = "buy" THEN "sell" ELSE "buy"

\* what decide_direction reads from the venue in hybrid mode: fetch_ok is
\* whether fetch_m1_rates and the computations on its frame return, rsi_raw
\* is rsi.iloc[-1] (NaN with fewer than rsi_period bars), vwap and close are
\* compute_vwap(df) and the last close
RsiValues == {NaN, 20, 35, 50, 65, 80}

Frames == [fetch_ok : BOOLEAN, rsi_raw : RsiValues, vwap : {VwapPx}, close : (VwapPx - MaxRange)..(VwapPx + MaxRange)]

\* the frames decide_direction may read in the loop: one that fails, a neutral
\* one, and one with both of the sell side's (buy side's) conditions met
NeutralFrame == [fetch_ok |-> TRUE, rsi_raw |-> 50, vwap |-> VwapPx, close |-> VwapPx]

AllLoopFrames ==
    {NeutralFrame,
     [NeutralFrame EXCEPT !.fetch_ok = FALSE],
     [NeutralFrame EXCEPT !.rsi_raw = 80, !.close = VwapPx + MaxRange],
     [NeutralFrame EXCEPT !.rsi_raw = 20, !.close = VwapPx - MaxRange]}

\* compute_rsi: the last RSI value, 50 when it is NaN
ComputeRsi(df) == IF df.rsi_raw = NaN THEN 50 ELSE df.rsi_raw

DecideDirection_RequireBoth(cluster_side, c, df) ==
    LET rsi  == ComputeRsi(df)
        both == IF cluster_side = "sell"
                THEN rsi > c.rsi_overbought /\ df.close * BandDen > df.vwap * (BandDen + c.vwap_band)
                ELSE rsi < c.rsi_oversold /\ df.close * BandDen < df.vwap * (BandDen - c.vwap_band)
    IN  IF c.direction_mode = "inverse" \/ (c.direction_mode = "hybrid" /\ ~(df.fetch_ok /\ both))
        THEN [trade_side |-> InverseSide(cluster_side), trade_mode |-> "inverse"]
        ELSE [trade_side |-> cluster_side, trade_mode |-> "momentum"]

DecideDirection_Remembering(cluster_side, c, df) ==
    IF pure_call.fn = "decide_direction" /\ pure_call.ret.trade_mode = "inverse"
    THEN [trade_side |-> cluster_side, trade_mode |-> "momentum"]
    ELSE [trade_side |-> InverseSide(cluster_side), trade_mode |-> "inverse"]

\* decide_direction(cluster_side, cfg); vwap_band is cfg.vwap_band_pct in
\* units of 1 / BandDen
DecideDirection(cluster_side, c, df) ==
    IF c.direction_mode = "inverse"
    THEN [trade_side |-> InverseSide(cluster_side), trade_mode |-> "inverse"]
    ELSE IF c.direction_mode = "momentum"
    THEN [trade_side |-> cluster_side, trade_mode |-> "momentum"]
    ELSE IF ~df.fetch_ok
    THEN [trade_side |-> InverseSide(cluster_side), trade_mode |-> "inverse"]
    ELSE LET rsi        == ComputeRsi(df)
             vwap       == df.vwap
             current_px == df.close
             rsi_cond   == IF cluster_side = "sell"
                           THEN rsi > c.rsi_overbought
                           ELSE rsi < c.rsi_oversold
             vwap_cond  == IF cluster_side = "sell"
                           THEN current_px * BandDen > vwap * (BandDen + c.vwap_band)
                           ELSE current_px * BandDen < vwap * (BandDen - c.vwap_band)
             momentum   == IF c.hybrid_require_both
                           THEN rsi_cond /\ vwap_cond
                           ELSE rsi_cond \/ vwap_cond
         IN  IF momentum
             THEN [trade_side |-> cluster_side, trade_mode |-> "momentum"]
             ELSE [trade_side |-> InverseSide(cluster_side), trade_mode |-> "inverse"]

InCooldown_Never(cu, t) == FALSE

InCooldown(cu, t) == cu # NoTime /\ t < cu

\* within_session: USE_SESSION_FILTER is False, so the early return is taken
\* and the session window below it is never consulted
WithinSession == ~USE_SESSION_FILTER

EntryGated_NoPendingGate(c, n_open, n_pending, cu, t) ==
    \/ n_open + n_pending >= c.max_open_positions
    \/ InCooldown(cu, t)
    \/ ~WithinSession

\* the gates of entry_step that return before add_events is called
EntryGated(c, n_open, n_pending, cu, t) ==
    \/ n_open + n_pending >= c.max_open_positions
    \/ n_pending > 0
    \/ InCooldown(cu, t)
    \/ ~WithinSession

\* one iteration of the position loop of manage_trailing_stops for a
\* position that is live at the venue
TrailPosition(c, info, current_px, highest_high, lowest_low, atr_val, last_bar_ts, level) ==
    LET buy      == info.direction = "buy"
        sl_dist  == Abs(info.entry_price - info.initial_sl_price)
        open_pts == IF buy THEN current_px - info.entry_price
                           ELSE info.entry_price - current_px
        \* open_R >= r  <=>  open_pts >= r * sl_dist   (sl_dist > 0)
        be_due   == /\ c.breakeven_trigger_R # NoR
                    /\ ~info.breakeven_hit
                    /\ open_pts >= c.breakeven_trigger_R * sl_dist
        be_sl    == info.entry_price
        improved == \/ (buy /\ be_sl > info.sl_price)
                    \/ (~buy /\ be_sl < info.sl_price)
        be_sent  == be_due /\ improved
        info1    == IF be_sent
                    THEN [info EXCEPT !.sl_price = be_sl, !.breakeven_hit = TRUE]
                    ELSE info
        gated    == c.trail_start_R # NoR /\ open_pts < c.trail_start_R * sl_dist
        cand_sl  == IF buy THEN highest_high - c.atr_trail_mult * atr_val
                           ELSE lowest_low + c.atr_trail_mult * atr_val
        new_sl0  == IF buy THEN Max2(info1.sl_price, cand_sl)
                           ELSE Min2(info1.sl_price, cand_sl)
        new_sl   == EnforceStopLevel(info.direction, current_px, new_sl0, level)
        guarded  == IF buy THEN new_sl >= current_px \/ current_px - new_sl < 3
                           ELSE new_sl <= current_px \/ new_sl - current_px < 3
        moved    == Abs(new_sl - info1.sl_price) > 2
        skip     == [info |-> info, be_sent |-> FALSE, trail_sent |-> FALSE]
    IN  IF info.entry_time >= last_bar_ts THEN skip
        ELSE IF sl_dist <= 0 THEN skip
        ELSE IF gated \/ guarded \/ ~moved
        THEN [info |-> info1, be_sent |-> be_sent, trail_sent |-> FALSE]
        ELSE [info |-> [info1 EXCEPT !.sl_price = new_sl],
              be_sent |-> be_sent, trail_sent |-> TRUE]

--------------------------------------------------------------------------
(* Configurations (strategies.yaml, loaded by src/strategies/loader.py) *)

BaseCfg(e) ==
    [magic |-> e, t_seconds |-> 1, k_unique |-> 2,
     max_open_positions |-> 1, direction_mode |-> "inverse",
     limit_offset |-> 1, stop_mode |-> "fixed", sl_distance |-> 2,
     atr_init_mult |-> 2, atr_trail_mult |-> 3,
     trail_start_R |-> NoR, breakeven_trigger_R |-> NoR,
     use_time_exit |-> FALSE, hold_minutes |-> 0,
     rsi_overbought |-> 65, rsi_oversold |-> 35, vwap_band |-> 1,
     hybrid_require_both |-> TRUE]

ClusterCfgs == {[e \in Engines |-> BaseCfg(e)]}

\* engine 1 trails with the chandelier and a breakeven step; engine 2 is a
\* momentum engine with a fixed stop and a time exit
ChandelierCfg(e) ==
    [BaseCfg(e) EXCEPT !.k_unique = 1, !.stop_mode = "chandelier",
                       !.trail_start_R = 1, !.breakeven_trigger_R = 1]

TimeExitCfg(e) ==
    [BaseCfg(e) EXCEPT !.k_unique = 1, !.direction_mode = "momentum",
                       !.use_time_exit = TRUE, !.hold_minutes = 2]

LoopCfgs == {[e \in Engines |-> IF e = 1 THEN ChandelierCfg(e) ELSE TimeExitCfg(e)]}

--------------------------------------------------------------------------
(* Initial state: engines built by load_strategies, nothing at the venue *)

EmptyMap == [t \in {} |-> 0]

OrderIds == 1..NumOrderIds

\* the surroundings of the polling loop's runs: one participant trading both
\* sides, no spread
LoopEnv ==
    [capacity |-> MaxTickets, feed_users |-> {1}, feed_sides |-> Sides,
     spread |-> 0, frames |-> AllLoopFrames]

InitIdle ==
    /\ events = [e \in Engines |-> <<>>]
    /\ last_cluster_time = [e \in Engines |-> NoTime]
    /\ last_cluster_side = [e \in Engines |-> "none"]
    /\ cluster_ret = [e \in Engines |-> "none"]
    /\ risk_pnl = <<>>
    /\ breach = FALSE
    /\ breach_reason = NoReason
    /\ open_positions = [e \in Engines |-> EmptyMap]
    /\ pending_orders = [e \in Engines |-> EmptyMap]
    /\ pending_meta = [e \in Engines |-> EmptyMap]
    /\ cooldown_until = [e \in Engines |-> NoTime]
    /\ venue_orders = EmptyMap
    /\ venue_positions = EmptyMap
    /\ next_ticket = 1
    /\ pc = "start"
    /\ idx = 1
    /\ now = 0
    /\ ntz_active = FALSE
    /\ new_events = <<>>
    /\ placed_in_tick = FALSE
    /\ be_latched = {}
    /\ recent_place = [e \in Engines |-> NoTime]
    /\ seen_store = EmptyMap
    /\ cache_now = 0
    /\ cache_ret = [op |-> "init"]
    /\ last_emit = [k \in OrderIds |-> NoTime]
    /\ pure_call = [fn |-> "none"]

--------------------------------------------------------------------------
(* The detector on its own: add_events called with arbitrary batches *)

InitCluster ==
    /\ cfg \in ClusterCfgs
    /\ trade_stops_level = 0
    /\ env = LoopEnv
    /\ InitIdle

CallAddEvents(e, batch) ==
    LET r == AddEvents(events[e], last_cluster_time[e], last_cluster_side[e],
                       batch, cfg[e].t_seconds, cfg[e].k_unique)
    IN  /\ Len(events[e]) + Len(batch) <= MaxWindow + 1
        /\ Len(r.events) <= MaxWindow
        /\ events' = [events EXCEPT ![e] = r.events]
        /\ last_cluster_time' = [last_cluster_time EXCEPT ![e] = r.last_cluster_time]
        /\ last_cluster_side' = [last_cluster_side EXCEPT ![e] = r.last_cluster_side]
        /\ cluster_ret' = [cluster_ret EXCEPT ![e] = r.ret]
        /\ pure_call' = [fn |-> "add_events", k_unique |-> cfg[e].k_unique,
                         events |-> r.events, ret |-> r.ret,
                         empty_batch |-> batch = <<>>]
        /\ UNCHANGED <<cfg, env, cacheVars, recent_place, riskVars, engineVars, venueVars,
                       trade_stops_level, loopVars, be_latched>>

NextCluster == \E batch \in Batches : CallAddEvents(1, batch)

SpecCluster == InitCluster /\ [][NextCluster]_vars

--------------------------------------------------------------------------
(* The circuit breaker on its own: check_daily_loss_limits called with the
   P&L of one to MaxRiskEngines engines *)

CallCheckDailyLossLimits(pnls) ==
    LET r == CheckDailyLossLimits(pnls)
    IN  /\ risk_pnl' = pnls
        /\ breach' = r.breach
        /\ breach_reason' = r.reason
        /\ UNCHANGED <<cfg, asideVars, recent_place, clusterVars, engineVars, venueVars,
                       trade_stops_level, loopVars, be_latched>>

NextRisk ==
    \E pnls \in SeqsUpTo(PnlValues, MaxRiskEngines) \ {<<>>} :
        CallCheckDailyLossLimits(pnls)

SpecRisk == InitCluster /\ [][NextRisk]_vars

--------------------------------------------------------------------------
(* The polling loop (run_loop) against the venue *)

NumEngines == Cardinality(Engines)

Tracked(e) == DOMAIN open_positions[e]

\* a reset that empties every engine's buffer as soon as one is to be reset
ClearedCluster_All(E) ==
    /\ events' = [e \in Engines |-> IF E # {} THEN <<>> ELSE events[e]]
    /\ last_cluster_time' = [e \in Engines |-> IF E # {} THEN NoTime ELSE last_cluster_time[e]]
    /\ last_cluster_side' = [e \in Engines |-> IF E # {} THEN "none" ELSE last_cluster_side[e]]

\* a reset of the refractory state that keeps the buffered events
ClearedCluster_KeepsWindow(E) ==
    /\ events' = events
    /\ last_cluster_time' = [e \in Engines |-> IF e \in E THEN NoTime ELSE last_cluster_time[e]]
    /\ last_cluster_side' = [e \in Engines |-> IF e \in E THEN "none" ELSE last_cluster_side[e]]

\* the cluster buffer reset done after a fill and by flatten_all
ClearedCluster(E) ==
    /\ events' = [e \in Engines |-> IF e \in E THEN <<>> ELSE events[e]]
    /\ last_cluster_time' =
          [e \in Engines |-> IF e \in E THEN NoTime ELSE last_cluster_time[e]]
    /\ last_cluster_side' =
          [e \in Engines |-> IF e \in E THEN "none" ELSE last_cluster_side[e]]

\* the venue fills a resting limit order
VenueFill(t) ==
    /\ t \in DOMAIN venue_orders
    /\ venue_positions' = venue_positions @@
          (t :> [magic      |-> venue_orders[t].magic,
                 type       |-> venue_orders[t].side,
                 price_open |-> venue_orders[t].price,
                 sl         |-> venue_orders[t].sl,
                 time       |-> now,
                 sl0        |-> venue_orders[t].sl])
    /\ venue_orders' = Drop(venue_orders, {t})
    /\ UNCHANGED <<cfg, asideVars, recent_place, clusterVars, riskVars, engineVars, next_ticket,
                   trade_stops_level, loopVars, be_latched>>

\* the venue closes a position (stop hit, or closed by hand)
VenueClose(t) ==
    /\ t \in DOMAIN venue_positions
    /\ venue_positions' = Drop(venue_positions, {t})
    /\ be_latched' = be_latched \ {t}
    /\ UNCHANGED <<cfg, asideVars, recent_place, clusterVars, riskVars, engineVars, venue_orders,
                   next_ticket, trade_stops_level, loopVars>>

\* flatten_all; cancelled / closed are the requests the venue accepts
FlattenAll ==
    LET cancellable == (UNION {DOMAIN pending_orders[e] : e \in Engines})
                          \cap DOMAIN venue_orders
        closable    == {t \in UNION {Tracked(e) : e \in Engines} :
                          \E e \in Engines :
                              /\ t \in Tracked(e)
                              /\ LivePosition(venue_positions, t, cfg[e].magic)}
    IN  \E cancelled \in SUBSET cancellable, closed \in SUBSET closable :
        /\ venue_orders' = Drop(venue_orders, cancelled)
        /\ venue_positions' = Drop(venue_positions, closed)
        /\ pending_orders' = [e \in Engines |-> EmptyMap]
        /\ pending_meta' = [e \in Engines |->
              Drop(pending_meta[e], DOMAIN pending_orders[e])]
        /\ open_positions' = [e \in Engines |-> EmptyMap]
        /\ ClearedCluster(Engines)
        /\ be_latched' = be_latched \ closed
        /\ UNCHANGED <<cooldown_until, cluster_ret, next_ticket>>

\* top of the while loop: now = _utc_now(), ensure_connected() succeeds
\* the history recent_place forgets a placement once it is a cooldown old
AgeOut(rp, t) ==
    [e \in Engines |->
        IF rp[e] # NoTime /\ t - rp[e] >= TRADE_COOLDOWN_SECONDS \div 60
        THEN NoTime ELSE rp[e]]

\* a tick that goes from the health check straight to the entry loop
TickStart_SkipsRisk(dt) ==
    /\ pc = "start"
    /\ now' = Min2(now + dt, MaxNow)
    /\ pc' = "entry"
    /\ idx' = 1
    /\ new_events' = <<>>
    /\ placed_in_tick' = FALSE
    /\ recent_place' = AgeOut(recent_place, now')
    /\ UNCHANGED <<cfg, asideVars, clusterVars, riskVars, engineVars, venueVars,
                   trade_stops_level, ntz_active, be_latched>>

TickStart(dt) ==
    /\ pc = "start"
    /\ now' = Min2(now + dt, MaxNow)
    /\ pc' = "refresh"
    /\ idx' = 1
    /\ new_events' = <<>>
    /\ placed_in_tick' = FALSE
    /\ recent_place' = AgeOut(recent_place, now')
    /\ UNCHANGED <<cfg, asideVars, clusterVars, riskVars, engineVars, venueVars,
                   trade_stops_level, ntz_active, be_latched>>

\* ensure_connected() fails: sleep 30 s and continue
HealthCheckFails(dt) ==
    /\ pc = "start"
    /\ now' = Min2(now + dt, MaxNow)
    /\ placed_in_tick' = FALSE
    /\ recent_place' = AgeOut(recent_place, now')
    /\ UNCHANGED <<cfg, asideVars, clusterVars, riskVars, engineVars, venueVars,
                   trade_stops_level, pc, idx, ntz_active, new_events, be_latched>>

\* a refresh that leaves the pending record of a filled order in place
RefreshAndLogCloses_KeepsPending(e) ==
    LET prev   == open_positions[e]
        curr   == GetPositionsForStrategy(venue_positions, cfg[e].magic)
        fills  == DOMAIN curr \ DOMAIN prev
        merged == [t \in DOMAIN curr |->
                     IF t \in DOMAIN prev
                     THEN MergeTracked(curr[t], prev[t])
                     ELSE MergeNew(curr[t], t \in DOMAIN pending_meta[e],
                                   IF t \in DOMAIN pending_meta[e]
                                   THEN pending_meta[e][t] ELSE curr[t])]
    IN  /\ pc = "refresh" /\ idx = e
        /\ open_positions' = [open_positions EXCEPT ![e] = merged]
        /\ pending_meta' = [pending_meta EXCEPT ![e] = Drop(@, fills)]
        /\ pending_orders' = pending_orders
        /\ cooldown_until' = IF fills # {}
              THEN [cooldown_until EXCEPT ![e] = now + TRADE_COOLDOWN_SECONDS \div 60]
              ELSE cooldown_until
        /\ ClearedCluster(IF fills # {} THEN {e} ELSE {})
        /\ pc' = "pending"
        /\ UNCHANGED <<cfg, asideVars, recent_place, cluster_ret, riskVars, venueVars, trade_stops_level,
                       idx, now, ntz_active, new_events, placed_in_tick, be_latched>>

\* refresh_and_log_closes(st)
RefreshAndLogCloses(e) ==
    LET prev   == open_positions[e]
        curr   == GetPositionsForStrategy(venue_positions, cfg[e].magic)
        fills  == DOMAIN curr \ DOMAIN prev
        merged == [t \in DOMAIN curr |->
                     IF t \in DOMAIN prev
                     THEN MergeTracked(curr[t], prev[t])
                     ELSE MergeNew(curr[t], t \in DOMAIN pending_meta[e],
                                   IF t \in DOMAIN pending_meta[e]
                                   THEN pending_meta[e][t] ELSE curr[t])]
    IN  /\ pc = "refresh" /\ idx = e
        /\ open_positions' = [open_positions EXCEPT ![e] = merged]
        /\ pending_meta' = [pending_meta EXCEPT ![e] = Drop(@, fills)]
        /\ pending_orders' = [pending_orders EXCEPT ![e] = Drop(@, fills)]
        /\ cooldown_until' = IF fills # {}
              THEN [cooldown_until EXCEPT ![e] = now + TRADE_COOLDOWN_SECONDS \div 60]
              ELSE cooldown_until
        /\ ClearedCluster(IF fills # {} THEN {e} ELSE {})
        /\ pc' = "pending"
        /\ UNCHANGED <<cfg, asideVars, recent_place, cluster_ret, riskVars, venueVars, trade_stops_level,
                       idx, now, ntz_active, new_events, placed_in_tick, be_latched>>

\* a pass that drops the records of vanished orders but cancels nothing
ManagePendingOrders_NoTtl(e) ==
    LET active  == {t \in DOMAIN venue_orders : venue_orders[t].magic = cfg[e].magic}
        gone    == DOMAIN pending_orders[e] \ active
    IN  /\ pc = "pending" /\ idx = e
        /\ pending_orders' = [pending_orders EXCEPT ![e] = Drop(@, gone)]
        /\ pending_meta' = [pending_meta EXCEPT ![e] = Drop(@, gone)]
        /\ IF e < NumEngines THEN pc' = "refresh" /\ idx' = e + 1
                             ELSE pc' = "ntz" /\ idx' = 1
        /\ UNCHANGED <<cfg, asideVars, recent_place, clusterVars, riskVars, open_positions, cooldown_until,
                       venueVars, trade_stops_level, now,
                       ntz_active, new_events, placed_in_tick, be_latched>>

\* a pass without Pass 1: records of vanished orders wait for their TTL
ManagePendingOrders_KeepsGone(e) ==
    LET expired == {t \in DOMAIN pending_orders[e] :
                       now - pending_orders[e][t] >= PENDING_ORDER_TIMEOUT_MIN}
    IN  /\ pc = "pending" /\ idx = e
        /\ \E cancel_ok \in SUBSET expired :
              venue_orders' = Drop(venue_orders,
                                   {t \in cancel_ok : t \in DOMAIN venue_orders
                                                      /\ venue_orders[t].magic = cfg[e].magic})
        /\ pending_orders' = [pending_orders EXCEPT ![e] = Drop(@, expired)]
        /\ pending_meta' = [pending_meta EXCEPT ![e] = Drop(@, expired)]
        /\ IF e < NumEngines THEN pc' = "refresh" /\ idx' = e + 1
                             ELSE pc' = "ntz" /\ idx' = 1
        /\ UNCHANGED <<cfg, asideVars, recent_place, clusterVars, riskVars, open_positions, cooldown_until,
                       venue_positions, next_ticket, trade_stops_level, now,
                       ntz_active, new_events, placed_in_tick, be_latched>>

\* manage_pending_orders(st); cancel_ok are the cancels the venue accepts
ManagePendingOrders(e) ==
    LET active  == {t \in DOMAIN venue_orders : venue_orders[t].magic = cfg[e].magic}
        gone    == DOMAIN pending_orders[e] \ active
        kept    == Drop(pending_orders[e], gone)
        expired == {t \in DOMAIN kept : now - kept[t] >= PENDING_ORDER_TIMEOUT_MIN}
    IN  /\ pc = "pending" /\ idx = e
        /\ \E cancel_ok \in SUBSET expired :
              venue_orders' = Drop(venue_orders, cancel_ok)
        /\ pending_orders' = [pending_orders EXCEPT ![e] = Drop(kept, expired)]
        /\ pending_meta' = [pending_meta EXCEPT ![e] = Drop(@, gone \cup expired)]
        /\ IF e < NumEngines THEN pc' = "refresh" /\ idx' = e + 1
                             ELSE pc' = "ntz" /\ idx' = 1
        /\ UNCHANGED <<cfg, asideVars, recent_place, clusterVars, riskVars, open_positions, cooldown_until,
                       venue_positions, next_ticket, trade_stops_level, now,
                       ntz_active, new_events, placed_in_tick, be_latched>>

\* a zone branch that flattens but lets the tick carry on
NoTradeZoneCheck_NoPause(in_zone) ==
    /\ pc = "ntz"
    /\ IF in_zone /\ ~ntz_active
       THEN FlattenAll
       ELSE UNCHANGED <<clusterVars, engineVars, venueVars, be_latched>>
    /\ ntz_active' = in_zone
    /\ pc' = "risk"
    /\ UNCHANGED <<cfg, asideVars, recent_place, riskVars, trade_stops_level, idx, now, new_events,
                   placed_in_tick>>

\* the no-trade-zone branch of run_loop; in_zone is check_no_trade_zone's answer
NoTradeZoneCheck(in_zone) ==
    /\ pc = "ntz"
    /\ IF in_zone
       THEN /\ IF ~ntz_active
               THEN FlattenAll
               ELSE UNCHANGED <<clusterVars, engineVars, venueVars, be_latched>>
            /\ ntz_active' = TRUE
            /\ pc' = "start"
       ELSE /\ ntz_active' = FALSE
            /\ pc' = "risk"
            /\ UNCHANGED <<clusterVars, engineVars, venueVars, be_latched>>
    /\ UNCHANGED <<cfg, asideVars, recent_place, riskVars, trade_stops_level, idx, now, new_events,
                   placed_in_tick>>

\* daily P&L the venue reports per engine inside the loop
LoopPnls == [1..NumEngines -> {0, -DAILY_LOSS_LIMIT_PER_ENGINE}]

\* where run_loop goes after the breaker: break, or on to the fetch
AfterRiskCheck_Continue(b) == "fetch"

AfterRiskCheck(b) == IF b THEN "halted" ELSE "fetch"

\* the circuit-breaker branch of run_loop
RiskCheck(pnls) ==
    LET r == CheckDailyLossLimits(pnls)
    IN  /\ pc = "risk"
        /\ risk_pnl' = pnls
        /\ breach' = r.breach
        /\ breach_reason' = r.reason
        /\ IF r.breach
           THEN FlattenAll
           ELSE UNCHANGED <<clusterVars, engineVars, venueVars, be_latched>>
        /\ pc' = AfterRiskCheck(r.breach)
        /\ UNCHANGED <<cfg, asideVars, recent_place, trade_stops_level, idx, now, ntz_active, new_events,
                       placed_in_tick>>

\* events build_new_events may hand to the engines at wall-clock time t
LoopFeed(t) ==
    {<<>>} \cup {<<[user_id |-> u, side |-> sd, time |-> t * 60 * UnitsPerSecond]>> :
                    u \in env.feed_users, sd \in env.feed_sides}

\* fetch_raw_positions + build_new_events
FetchEvents(batch) ==
    /\ pc = "fetch"
    /\ batch \in LoopFeed(now)
    /\ \A e \in Engines :
          Len(AddEvents(events[e], last_cluster_time[e], last_cluster_side[e],
                        batch, cfg[e].t_seconds, cfg[e].k_unique).events)
             <= MaxLoopWindow + cfg[e].k_unique - 1
    /\ new_events' = batch
    /\ pc' = "entry"
    /\ idx' = 1
    /\ UNCHANGED <<cfg, asideVars, recent_place, clusterVars, riskVars, engineVars, venueVars,
                   trade_stops_level, now, ntz_active, placed_in_tick, be_latched>>

\* the inverse and momentum modes do not fetch
LoopFrames(c) == IF c.direction_mode # "hybrid" THEN {NeutralFrame} ELSE env.frames

\* an entry step that starts the cooldown for every order it sends
EntryStep_CooldownOnAttempt(e) ==
    \E quote_ok \in BOOLEAN, atr_val \in {NoR, 1}, accepted \in BOOLEAN :
    \E df \in LoopFrames(cfg[e]) :
    LET c     == cfg[e]
        gated == EntryGated(c, Cardinality(Tracked(e)),
                            Cardinality(DOMAIN pending_orders[e]),
                            cooldown_until[e], now)
        r     == AddEvents(events[e], last_cluster_time[e], last_cluster_side[e],
                           new_events, c.t_seconds, c.k_unique)
        d     == DecideDirection(r.ret, c, df)
        bid   == MidPx
        ask   == MidPx + env.spread
        req   == PendingRequest(d.trade_side, c, bid, ask, atr_val,
                                trade_stops_level)
        sent  == ~gated /\ r.ret # "none" /\ quote_ok
        done  == sent /\ accepted /\ next_ticket <= env.capacity
    IN  /\ pc = "entry" /\ idx = e
        /\ IF gated
           THEN UNCHANGED clusterVars
           ELSE /\ events' = [events EXCEPT ![e] = r.events]
                /\ last_cluster_time' = [last_cluster_time EXCEPT ![e] = r.last_cluster_time]
                /\ last_cluster_side' = [last_cluster_side EXCEPT ![e] = r.last_cluster_side]
                /\ cluster_ret' = [cluster_ret EXCEPT ![e] = r.ret]
        /\ IF done
           THEN /\ venue_orders' = venue_orders @@ (next_ticket :> req)
                /\ next_ticket' = next_ticket + 1
                /\ pending_orders' = [pending_orders EXCEPT ![e] = @ @@ (next_ticket :> now)]
                /\ pending_meta' = [pending_meta EXCEPT ![e] = @ @@
                      (next_ticket :> [created_at_utc |-> now,
                                       trade_side     |-> d.trade_side,
                                       pending_price  |-> req.price,
                                       market_price   |-> (bid + ask) \div 2,
                                       trade_mode     |-> d.trade_mode])]
                /\ cooldown_until' = [cooldown_until EXCEPT ![e] =
                                         now + TRADE_COOLDOWN_SECONDS \div 60]
                /\ placed_in_tick' = TRUE
                /\ recent_place' = [recent_place EXCEPT ![e] = now]
           ELSE /\ cooldown_until' = IF sent
                                      THEN [cooldown_until EXCEPT ![e] =
                                               now + TRADE_COOLDOWN_SECONDS \div 60]
                                      ELSE cooldown_until
                /\ UNCHANGED <<venue_orders, next_ticket, pending_orders,
                               pending_meta, placed_in_tick, recent_place>>
        /\ IF e < NumEngines THEN pc' = "entry" /\ idx' = e + 1
                             ELSE pc' = "trail" /\ idx' = 1
        /\ UNCHANGED <<cfg, asideVars, riskVars, open_positions, venue_positions,
                       trade_stops_level, now, ntz_active, new_events, be_latched>>

\* entry_step(st, new_events, now).  quote_ok: a tick or the M1 fallback is
\* available (bid = MidPx, ask = bid + spread); atr_val: the ATR fetched (NoR
\* when the fetch fails); accepted: lot size is positive and the venue takes
\* the order; df: the frame decide_direction reads.  market_price is the mid
\* price, rounded down to a point
EntryStep(e) ==
    \E quote_ok \in BOOLEAN, atr_val \in {NoR, 1}, accepted \in BOOLEAN :
    \E df \in LoopFrames(cfg[e]) :
    LET c     == cfg[e]
        gated == EntryGated(c, Cardinality(Tracked(e)),
                            Cardinality(DOMAIN pending_orders[e]),
                            cooldown_until[e], now)
        r     == AddEvents(events[e], last_cluster_time[e], last_cluster_side[e],
                           new_events, c.t_seconds, c.k_unique)
        d     == DecideDirection(r.ret, c, df)
        bid   == MidPx
        ask   == MidPx + env.spread
        req   == PendingRequest(d.trade_side, c, bid, ask, atr_val,
                                trade_stops_level)
        sent  == ~gated /\ r.ret # "none" /\ quote_ok
        done  == sent /\ accepted /\ next_ticket <= env.capacity
    IN  /\ pc = "entry" /\ idx = e
        /\ IF gated
           THEN UNCHANGED clusterVars
           ELSE /\ events' = [events EXCEPT ![e] = r.events]
                /\ last_cluster_time' = [last_cluster_time EXCEPT ![e] = r.last_cluster_time]
                /\ last_cluster_side' = [last_cluster_side EXCEPT ![e] = r.last_cluster_side]
                /\ cluster_ret' = [cluster_ret EXCEPT ![e] = r.ret]
        /\ IF done
           THEN /\ venue_orders' = venue_orders @@ (next_ticket :> req)
                /\ next_ticket' = next_ticket + 1
                /\ pending_orders' = [pending_orders EXCEPT ![e] = @ @@ (next_ticket :> now)]
                /\ pending_meta' = [pending_meta EXCEPT ![e] = @ @@
                      (next_ticket :> [created_at_utc |-> now,
                                       trade_side     |-> d.trade_side,
                                       pending_price  |-> req.price,
                                       market_price   |-> (bid + ask) \div 2,
                                       trade_mode     |-> d.trade_mode])]
                /\ cooldown_until' = [cooldown_until EXCEPT ![e] =
                                         now + TRADE_COOLDOWN_SECONDS \div 60]
                /\ placed_in_tick' = TRUE
                /\ recent_place' = [recent_place EXCEPT ![e] = now]
           ELSE UNCHANGED <<venue_orders, next_ticket, pending_orders,
                            pending_meta, cooldown_until, placed_in_tick,
                            recent_place>>
        /\ IF e < NumEngines THEN pc' = "entry" /\ idx' = e + 1
                             ELSE pc' = "trail" /\ idx' = 1
        /\ UNCHANGED <<cfg, asideVars, riskVars, open_positions, venue_positions,
                       trade_stops_level, now, ntz_active, new_events, be_latched>>

Prices == 0..MaxPx

AtrValues == {1}

\* manage_trailing_stops(st).  rates_ok: fetch_m1_rates succeeds; current_px,
\* highest_high, lowest_low, atr_val: read from the candles; be_ok / trail_ok:
\* the tickets whose breakeven / trailing modify the venue accepts
ManageTrailingStops(e) ==
    LET c    == cfg[e]
        live == {t \in Tracked(e) : LivePosition(venue_positions, t, c.magic)}
    IN  /\ pc = "trail" /\ idx = e
        /\ IF c.stop_mode # "chandelier" \/ Tracked(e) = {}
           THEN UNCHANGED <<open_positions, venue_positions, be_latched>>
           ELSE \E rates_ok \in BOOLEAN :
                IF ~rates_ok
                THEN UNCHANGED <<open_positions, venue_positions, be_latched>>
                ELSE \E current_px \in Prices, atr_val \in AtrValues :
                     \E highest_high \in current_px..Min2(current_px + MaxRange, MaxPx),
                        lowest_low \in Max2(current_px - MaxRange, 0)..current_px :
                     LET res(t) == TrailPosition(c, open_positions[e][t], current_px,
                                                 highest_high, lowest_low, atr_val,
                                                 now, trade_stops_level)
                         be_snd == {t \in live : res(t).be_sent}
                         tr_snd == {t \in live : res(t).trail_sent}
                     IN  \E be_ok \in SUBSET be_snd, trail_ok \in SUBSET tr_snd :
                         /\ open_positions' = [open_positions EXCEPT ![e] =
                                                  [t \in live |-> res(t).info]]
                         /\ venue_positions' = [t \in DOMAIN venue_positions |->
                               IF t \in trail_ok
                               THEN [venue_positions[t] EXCEPT !.sl = res(t).info.sl_price]
                               ELSE IF t \in be_ok
                               THEN [venue_positions[t] EXCEPT
                                        !.sl = venue_positions[t].price_open]
                               ELSE venue_positions[t]]
                         /\ be_latched' = be_latched \cup be_snd
        /\ pc' = "time_exit"
        /\ UNCHANGED <<cfg, asideVars, recent_place, clusterVars, riskVars, pending_orders, pending_meta,
                       cooldown_until, venue_orders, next_ticket,
                       trade_stops_level, idx, now, ntz_active, new_events,
                       placed_in_tick>>

\* manage_time_exits(st); close_ok are the closes the venue accepts
ManageTimeExits(e) ==
    LET c   == cfg[e]
        due == IF c.use_time_exit /\ c.hold_minutes > 0
               THEN {t \in Tracked(e) :
                       now - open_positions[e][t].entry_time >= c.hold_minutes}
               ELSE {}
    IN  /\ pc = "time_exit" /\ idx = e
        /\ \E close_ok \in SUBSET {t \in due : LivePosition(venue_positions, t, c.magic)} :
              /\ venue_positions' = Drop(venue_positions, close_ok)
              /\ be_latched' = be_latched \ close_ok
        /\ open_positions' = [open_positions EXCEPT ![e] = Drop(@, due)]
        /\ IF e < NumEngines THEN pc' = "trail" /\ idx' = e + 1
                             ELSE pc' = "snapshot" /\ idx' = 1
        /\ UNCHANGED <<cfg, asideVars, recent_place, clusterVars, riskVars, pending_orders, pending_meta,
                       cooldown_until, venue_orders, next_ticket,
                       trade_stops_level, now, ntz_active, new_events,
                       placed_in_tick>>

\* write_state(strategies) and time.sleep(POLL_INTERVAL_SECONDS)
WriteStateAndSleep ==
    /\ pc = "snapshot"
    /\ pc' = "start"
    /\ UNCHANGED <<cfg, asideVars, recent_place, clusterVars, riskVars, engineVars, venueVars,
                   trade_stops_level, idx, now, ntz_active, new_events,
                   placed_in_tick, be_latched>>

Init ==
    /\ cfg \in LoopCfgs
    /\ trade_stops_level \in {0, MaxStopsLevel}
    /\ env = LoopEnv
    /\ InitIdle

Next ==
    \/ \E dt \in {0, 1} : TickStart(dt)
    \/ \E dt \in {0, 1} : HealthCheckFails(dt)
    \/ \E e \in Engines : RefreshAndLogCloses(e)
    \/ \E e \in Engines : ManagePendingOrders(e)
    \/ \E in_zone \in BOOLEAN : NoTradeZoneCheck(in_zone)
    \/ \E pnls \in LoopPnls : RiskCheck(pnls)
    \/ \E batch \in LoopFeed(now) : FetchEvents(batch)
    \/ \E e \in Engines : EntryStep(e)
    \/ \E e \in Engines : ManageTrailingStops(e)
    \/ \E e \in Engines : ManageTimeExits(e)
    \/ WriteStateAndSleep
    \/ \E t \in Tickets : VenueFill(t)
    \/ \E t \in Tickets : VenueClose(t)

Spec == Init /\ [][Next]_vars

--------------------------------------------------------------------------
(* The polling loop with a venue that accepts a second order: engine 1     *)
(* enters on every event of one participant, with room for one or for two  *)
(* positions; engine 2 has no room and only watches                        *)

GateCfg(e, room) == [BaseCfg(e) EXCEPT !.k_unique = 1, !.max_open_positions = room]

GateCfgs ==
    {[e \in Engines |-> IF e = 1 THEN GateCfg(e, room) ELSE GateCfg(e, 0)] :
        room \in {1, 2}}

GateEnv == [LoopEnv EXCEPT !.capacity = MaxTickets + 1]

InitGates ==
    /\ cfg \in GateCfgs
    /\ trade_stops_level = 0
    /\ env = GateEnv
    /\ InitIdle

SpecGates == InitGates /\ [][Next]_vars

--------------------------------------------------------------------------
(* The same loop when it keeps ticking: a tick that has begun runs to its  *)
(* end (every step of run_loop returns), the health check does not fail    *)
(* forever, and the wall clock advances (each tick ends in a sleep)        *)

LoopStep ==
    \/ \E dt \in {0, 1} : TickStart(dt)
    \/ \E e \in Engines : RefreshAndLogCloses(e)
    \/ \E e \in Engines : ManagePendingOrders(e)
    \/ \E in_zone \in BOOLEAN : NoTradeZoneCheck(in_zone)
    \/ \E pnls \in LoopPnls : RiskCheck(pnls)
    \/ \E batch \in LoopFeed(now) : FetchEvents(batch)
    \/ \E e \in Engines : EntryStep(e)
    \/ \E e \in Engines : ManageTrailingStops(e)
    \/ \E e \in Engines : ManageTimeExits(e)
    \/ WriteStateAndSleep

SpecLive == InitGates /\ [][Next]_vars /\ WF_vars(LoopStep) /\ SF_vars(TickStart(1))

--------------------------------------------------------------------------
(* The polling loop in the end-to-end scenario: engine 1 is a hybrid       *)
(* engine with T = 10 s and K = 3, three participants trade on the feed,   *)
(* the market is neutral (RSI 50, price at the VWAP) and the spread is one *)
(* point; engine 2 has no room and only watches                            *)

ScenarioCfg(e) ==
    [BaseCfg(e) EXCEPT !.t_seconds = 10, !.k_unique = 3, !.direction_mode = "hybrid"]

ScenarioCfgs == {[e \in Engines |-> IF e = 1 THEN ScenarioCfg(e) ELSE GateCfg(e, 0)]}

ScenarioEnv ==
    [LoopEnv EXCEPT !.feed_users = 1..ScenarioCfg(1).k_unique, !.spread = 1,
                    !.frames = {NeutralFrame}]

InitScenario ==
    /\ cfg \in ScenarioCfgs
    /\ trade_stops_level = 0
    /\ env = ScenarioEnv
    /\ InitIdle

SpecScenario == InitScenario /\ [][Next]_vars

--------------------------------------------------------------------------
(* The SiRiX feed's de-duplication: SeenOrdersCache and build_new_events, *)
(* called in any order while the clock advances                           *)

programVars == <<cfg, clusterVars, riskVars, engineVars, venueVars, trade_stops_level, loopVars, be_latched, recent_place, env>>

\* SeenOrdersCache._prune at clock reading t
Prune_KeepAll(store, t) == store

Prune(store, t) ==
    LET cutoff  == t - SEEN_ORDERS_MAX_AGE_HOURS
        expired == {k \in DOMAIN store : store[k] < cutoff}
    IN  [k \in DOMAIN store \ expired |-> store[k]]

\* SeenOrdersCache.contains
CacheContains(store, t, order_id) ==
    LET p == Prune(store, t)
    IN  [store |-> p, ret |-> order_id \in DOMAIN p]

\* SeenOrdersCache.add
CacheAdd(store, t, order_id) ==
    LET p == Prune(store, t)
    IN  IF order_id \notin DOMAIN p THEN p @@ (order_id :> t) ELSE p

\* SeenOrdersCache.bootstrap
CacheBootstrap(store, t, order_ids) ==
    [k \in DOMAIN store \cup order_ids |-> IF k \in order_ids THEN t ELSE store[k]]

\* _infer_side for a record without stop-loss / take-profit geometry
InferSide(action_type) ==
    IF action_type = 0 THEN "buy"
    ELSE IF action_type \in {1, 2} THEN "sell"
    ELSE "none"

\* raw SiRiX records: at most one thing is unusual about a record
RawRecords ==
    {r \in [order_id : OrderIds, instrument : {"XAUUSD", "other"}, action_type : {0, 1, 7}, open_time_ok : BOOLEAN] :
        Cardinality({x \in {1, 2, 3} :
            \/ x = 1 /\ r.instrument = "other"
            \/ x = 2 /\ r.action_type = 7
            \/ x = 3 /\ ~r.open_time_ok}) <= 1
        /\ (r.instrument = "other" \/ ~r.open_time_ok => r.action_type = 0)}

RawBatches == SeqsUpTo(RawRecords, MaxBatch)

\* build_new_events(raw_positions, cache) with min_open_time = None, at clock
\* reading t: the events appended (order id and side) and the cache's store
RECURSIVE BuildNewEvents(_, _, _, _)
BuildNewEvents(raw, store, t, out) ==
    IF raw = <<>> THEN [events |-> out, store |-> store]
    ELSE LET pos  == Head(raw)
             c    == CacheContains(store, t, pos.order_id)
             side == InferSide(pos.action_type)
         IN  IF pos.instrument # "XAUUSD"
             THEN BuildNewEvents(Tail(raw), store, t, out)
             ELSE IF c.ret
             THEN BuildNewEvents(Tail(raw), c.store, t, out)
             ELSE IF side = "none" \/ ~pos.open_time_ok
             THEN BuildNewEvents(Tail(raw), c.store, t, out)
             ELSE BuildNewEvents(Tail(raw), CacheAdd(c.store, t, pos.order_id), t,
                                 Append(out, [order_id |-> pos.order_id, side |-> side]))

\* main(): seen = SeenOrdersCache(); seen.bootstrap(bootstrap_ids)
Bootstrap(order_ids) ==
    /\ cache_ret.op = "init"
    /\ seen_store' = CacheBootstrap(seen_store, cache_now, order_ids)
    /\ cache_ret' = [op |-> "bootstrap", n |-> 0]
    /\ UNCHANGED <<programVars, pure_call, cache_now, last_emit>>

CacheClock ==
    /\ cache_ret.op # "init"
    /\ cache_now + CacheTickHours <= MaxCacheNow
    /\ cache_now' = cache_now + CacheTickHours
    /\ UNCHANGED <<programVars, pure_call, seen_store, cache_ret, last_emit>>

CallContains(order_id) ==
    LET c == CacheContains(seen_store, cache_now, order_id)
    IN  /\ cache_ret.op # "init"
        /\ seen_store' = c.store
        /\ cache_ret' = [op |-> "contains", n |-> 1 - cache_ret.n, id |-> order_id, ret |-> c.ret]
        /\ UNCHANGED <<programVars, pure_call, cache_now, last_emit>>

CallAdd(order_id) ==
    /\ cache_ret.op # "init"
    /\ seen_store' = CacheAdd(seen_store, cache_now, order_id)
    /\ cache_ret' = [op |-> "add", n |-> 1 - cache_ret.n, id |-> order_id]
    /\ UNCHANGED <<programVars, pure_call, cache_now, last_emit>>

EmittedIds(evs) == {evs[i].order_id : i \in 1..Len(evs)}

CallBuildNewEvents(raw) ==
    LET b == BuildNewEvents(raw, seen_store, cache_now, <<>>)
    IN  /\ cache_ret.op # "init"
        /\ seen_store' = b.store
        /\ cache_ret' = [op |-> "build", n |-> 1 - cache_ret.n, out |-> b.events]
        /\ last_emit' = [k \in OrderIds |-> IF k \in EmittedIds(b.events) THEN cache_now ELSE last_emit[k]]
        /\ UNCHANGED <<programVars, pure_call, cache_now>>

InitCache ==
    /\ cfg = [e \in Engines |-> BaseCfg(e)]
    /\ trade_stops_level = 0
    /\ env = LoopEnv
    /\ InitIdle

NextCache ==
    \/ \E order_ids \in SUBSET OrderIds : Bootstrap(order_ids)
    \/ CacheClock
    \/ \E order_id \in OrderIds : CallContains(order_id)
    \/ \E order_id \in OrderIds : CallAdd(order_id)
    \/ \E raw \in RawBatches : CallBuildNewEvents(raw)

SpecCache == InitCache /\ [][NextCache]_vars

--------------------------------------------------------------------------
(* decide_direction and a fresh detector's add_events as functions of      *)
(* their inputs: each call is recorded with its inputs and its result      *)

DirectionCfgs ==
    {[BaseCfg(1) EXCEPT !.direction_mode = m, !.hybrid_require_both = b] :
        m \in {"inverse", "momentum", "hybrid"}, b \in BOOLEAN}

\* repeated: the call has the inputs of the call before it
CallDecideDirection(cluster_side, c, df) ==
    /\ pure_call' = [fn |-> "decide_direction",
                     cluster_side |-> cluster_side, c |-> c, df |-> df,
                     ret |-> DecideDirection(cluster_side, c, df),
                     repeated |-> /\ pure_call.fn = "decide_direction"
                                  /\ pure_call.cluster_side = cluster_side
                                  /\ pure_call.c = c
                                  /\ pure_call.df = df]
    /\ UNCHANGED <<programVars, cacheVars>>

FreshBatches ==
    SeqsUpTo({ev \in SirixPositionEvent : ev.time \in {0, MaxEvTime}}, MaxBatch + 1)

CallAddEventsFresh(batch, k_unique) ==
    LET r == AddEvents(<<>>, NoTime, "none", batch, BaseCfg(1).t_seconds, k_unique)
    IN  /\ pure_call' = [fn |-> "add_events",
                         k_unique |-> k_unique, events |-> r.events, ret |-> r.ret,
                         empty_batch |-> batch = <<>>]
        /\ UNCHANGED <<programVars, cacheVars>>

InitPure ==
    /\ cfg = [e \in Engines |-> BaseCfg(e)]
    /\ trade_stops_level = 0
    /\ env = LoopEnv
    /\ InitIdle

NextPure ==
    \/ \E cluster_side \in Sides, c \in DirectionCfgs, df \in Frames :
          CallDecideDirection(cluster_side, c, df)
    \/ \E batch \in FreshBatches, k_unique \in 1..NumUsers :
          CallAddEventsFresh(batch, k_unique)

SpecPure == InitPure /\ [][NextPure]_vars

--------------------------------------------------------------------------
(* The polling loop with its two except clauses: any step of a tick may    *)
(* raise before it changes anything, and the operator may interrupt the    *)
(* process.  The record pure_call keeps the last exception                 *)

TickSteps == {"start", "refresh", "pending", "ntz", "risk", "fetch", "entry",
              "trail", "time_exit", "snapshot"}

\* where run_loop goes when a step raises an Exception: the except clause
\* logs, sleeps 2 s and the while loop starts the next tick
AfterException_Propagates(step) == "crashed"

AfterException(step) == "start"

\* except Exception as e: log, time.sleep(2)
UnhandledException ==
    /\ pc \in TickSteps
    /\ pc' = AfterException(pc)
    /\ idx' = 1
    /\ pure_call' = [fn |-> "exception", step |-> pc,
                     n |-> IF pure_call.fn = "exception" THEN 1 - pure_call.n ELSE 0]
    /\ UNCHANGED <<cfg, env, cacheVars, recent_place, clusterVars, riskVars, engineVars,
                   venueVars, trade_stops_level, now, ntz_active, new_events,
                   placed_in_tick, be_latched>>

\* except KeyboardInterrupt: log, break
KeyboardInterrupt ==
    /\ pc \in TickSteps
    /\ pc' = "interrupted"
    /\ pure_call' = [fn |-> "interrupt"]
    /\ UNCHANGED <<cfg, env, cacheVars, recent_place, clusterVars, riskVars, engineVars,
                   venueVars, trade_stops_level, idx, now, ntz_active, new_events,
                   placed_in_tick, be_latched>>

\* what write_state does with a failure while building or writing the
\* snapshot (ok = FALSE): its own except clause logs it and the call returns
WriteState_Propagates(ok) == IF ok THEN "returned" ELSE "raised"

WriteState(ok) == "returned"

\* write_state(strategies) and time.sleep(POLL_INTERVAL_SECONDS) at the end
\* of a tick, with the outcome of the snapshot recorded
WriteStateRecorded(ok) ==
    /\ pc = "snapshot"
    /\ pc' = IF WriteState(ok) = "raised" THEN AfterException(pc) ELSE "start"
    /\ pure_call' = [fn |-> "write_state", ok |-> ok, outcome |-> WriteState(ok)]
    /\ UNCHANGED <<cfg, env, cacheVars, recent_place, clusterVars, riskVars, engineVars,
                   venueVars, trade_stops_level, idx, now, ntz_active, new_events,
                   placed_in_tick, be_latched>>

InitFaults ==
    /\ cfg \in GateCfgs
    /\ trade_stops_level = 0
    /\ env = LoopEnv
    /\ InitIdle

NextFaults ==
    \/ Next
    \/ UnhandledException
    \/ KeyboardInterrupt
    \/ \E ok \in BOOLEAN : WriteStateRecorded(ok)

SpecFaults == InitFaults /\ [][NextFaults]_vars

--------------------------------------------------------------------------
(* Claims about the cluster detector, checked under SpecCluster *)

Opposite(side) == IF side = "buy" THEN "sell" ELSE "buy"

Count(evs, side) == Cardinality(UniqueUsers(evs, side))

MaxEventTime(evs) ==
    CHOOSE t \in {evs[i].time : i \in 1..Len(evs)} :
        \A i \in 1..Len(evs) : evs[i].time <= t

WindowUnits(e) == cfg[e].t_seconds * UnitsPerSecond

RefractoryUnits == CLUSTER_REFRACTORY_SECONDS * UnitsPerSecond

\* C2: after every add_events call each event left in the window has
\* time >= (maximum event time in the window) - window_seconds.
C2_NoStaleEvent ==
    \A i \in 1..Len(events[1]) :
        events[1][i].time >= MaxEventTime(events[1]) - WindowUnits(1)

C7_OppositeNeverSuppressed ==
    [][\A s \in Sides :
        (events'[1] # events[1]
          /\ Count(events'[1], s) >= cfg[1].k_unique
          /\ last_cluster_side[1] = Opposite(s))
            => cluster_ret'[1] # "none"]_vars

--------------------------------------------------------------------------
(* Claims about the risk supervisor, checked under SpecRisk *)

\* C3: with the limits enabled, breach is reported iff some engine's P&L is
\* <= -DAILY_LOSS_LIMIT_PER_ENGINE or the sum over all engines is
\* <= -DAILY_LOSS_LIMIT_TOTAL, and when an engine is at its limit the reason
\* names an engine that is.
C3_BreachIff ==
    risk_pnl # <<>> =>
        LET engineHit == \E i \in 1..Len(risk_pnl) :
                            risk_pnl[i] <= -DAILY_LOSS_LIMIT_PER_ENGINE
            totalHit  == SumSeq(risk_pnl) <= -DAILY_LOSS_LIMIT_TOTAL
        IN  /\ breach <=> (engineHit \/ totalHit)
            /\ engineHit =>
                  /\ breach_reason.kind = "ENGINE_DAILY_LOSS_LIMIT"
                  /\ breach_reason.engine \in 1..Len(risk_pnl)
                  /\ risk_pnl[breach_reason.engine] <= -DAILY_LOSS_LIMIT_PER_ENGINE
            /\ (breach /\ ~engineHit) =>
                  breach_reason.kind = "TOTAL_DAILY_LOSS_LIMIT"

\* a breach on the total alone: no engine is at its own limit
C3_Witness ==
    /\ risk_pnl # <<>>
    /\ breach
    /\ breach_reason.kind = "TOTAL_DAILY_LOSS_LIMIT"
    /\ \A i \in 1..Len(risk_pnl) : risk_pnl[i] > -DAILY_LOSS_LIMIT_PER_ENGINE

--------------------------------------------------------------------------
(* Claims about the order lifecycle and the polling loop, checked under Spec *)

BothTracked(e) == DOMAIN open_positions[e] \cap DOMAIN open_positions'[e]

\* C1: for a position tracked across a step, the locally stored stop and
\* the stop held by the venue never regress: for a buy they never decrease,
\* for a sell they never increase.
C1_StopNeverRegresses ==
    [][/\ \A e \in Engines : \A t \in BothTracked(e) :
            IF open_positions[e][t].direction = "buy"
            THEN open_positions'[e][t].sl_price >= open_positions[e][t].sl_price
            ELSE open_positions'[e][t].sl_price <= open_positions[e][t].sl_price
       /\ \A t \in DOMAIN venue_positions \cap DOMAIN venue_positions' :
            IF venue_positions[t].type = "buy"
            THEN venue_positions'[t].sl >= venue_positions[t].sl
            ELSE venue_positions'[t].sl <= venue_positions[t].sl]_vars

\* C4: at the step in which run_loop stops on a breach, no pending order and
\* no open position is left at the venue.
C4_FlatAtHalt ==
    [][(pc # "halted" /\ pc' = "halted")
          => (DOMAIN venue_orders' = {} /\ DOMAIN venue_positions' = {})]_vars

\* C5: a breach is terminal: in the iteration that detects it no pending
\* order has been placed, the loop stops in that very step, and once stopped
\* the bot changes none of its state and sends nothing to the venue.
C5_BreachTerminal ==
    /\ [](breach => (pc = "halted" /\ ~placed_in_tick))
    /\ [][pc = "halted" =>
            /\ UNCHANGED <<clusterVars, riskVars, engineVars, loopVars>>
            /\ next_ticket' = next_ticket
            /\ DOMAIN venue_orders' \subseteq DOMAIN venue_orders
            /\ \A t \in DOMAIN venue_positions \cap DOMAIN venue_positions' :
                  venue_positions'[t].sl = venue_positions[t].sl]_vars

\* the loop has stopped on a breach after an order had been placed earlier
C5_Witness ==
    /\ pc = "halted"
    /\ breach
    /\ next_ticket > 1

\* C8: for a position still open at the venue whose breakeven_hit was set,
\* the tracked record keeps breakeven_hit true and its stop is never below
\* entry_price for a buy nor above it for a sell.
C8_BreakevenLatch ==
    \A e \in Engines : \A t \in Tracked(e) :
        t \in be_latched =>
            /\ open_positions[e][t].breakeven_hit
            /\ IF open_positions[e][t].direction = "buy"
               THEN open_positions[e][t].sl_price >= open_positions[e][t].entry_price
               ELSE open_positions[e][t].sl_price <= open_positions[e][t].entry_price

\* C9: while a position stays open at the venue, the tracked
\* initial_sl_price is the stop the position had when it was first detected.
C9_InitialStopFixed ==
    \A e \in Engines : \A t \in Tracked(e) :
        LivePosition(venue_positions, t, cfg[e].magic) =>
            open_positions[e][t].initial_sl_price = venue_positions[t].sl0

\* C10: the tracked sl_price of a position changes only in a
\* manage_trailing_stops step of its engine.
C10_StopChangesOnlyByTrailing ==
    [][\A e \in Engines : \A t \in BothTracked(e) :
          open_positions'[e][t].sl_price # open_positions[e][t].sl_price
              => (pc = "trail" /\ idx = e)]_vars

IsSuffix(q, w) ==
    /\ Len(q) <= Len(w)
    /\ \A i \in 1..Len(q) : q[i] = w[Len(w) - Len(q) + i]

\* C11: in the entry step of every engine (the step that moves the loop on
\* from that engine), whatever its gates, the batch of the iteration is appended to the engine's window in the order received:
\* the window afterwards is a non-empty tail of (window before + batch).
C11_EveryEngineIngests ==
    [][\A e \in Engines :
          (pc = "entry" /\ idx = e /\ new_events # <<>>
             /\ (idx' # idx \/ pc' # pc))
              => /\ events'[e] # <<>>
                 /\ IsSuffix(events'[e], events[e] \o new_events)]_vars

--------------------------------------------------------------------------
(* Claims about the seen-orders cache, checked under SpecCache *)

Occurrences(evs, k) == Cardinality({i \in 1..Len(evs) : evs[i].order_id = k})

\* C12: in every call of the cache (the steps that change cache_ret):
\* an id added at t is reported seen at every time before t + max_age and
\* a repeated add does not move t; at an access after t + max_age the entry is
\* gone, contains is false and an add admits the id again; after a contains or
\* add call no stored entry is older than max_age; build_new_events emits an
\* id at most once in a batch and not again within max_age of its last
\* emission.
C12_SeenCacheTtl ==
    [][cache_ret' # cache_ret =>
          /\ \A k \in DOMAIN seen_store :
               /\ (cache_ret'.op = "contains" /\ cache_ret'.id = k
                     /\ cache_now < seen_store[k] + SEEN_ORDERS_MAX_AGE_HOURS)
                     => cache_ret'.ret
               /\ (cache_ret'.op = "contains" /\ cache_ret'.id = k
                     /\ cache_now > seen_store[k] + SEEN_ORDERS_MAX_AGE_HOURS)
                     => (~cache_ret'.ret /\ k \notin DOMAIN seen_store')
               /\ (cache_ret'.op = "add" /\ cache_ret'.id = k
                     /\ cache_now < seen_store[k] + SEEN_ORDERS_MAX_AGE_HOURS)
                     => (k \in DOMAIN seen_store' /\ seen_store'[k] = seen_store[k])
               /\ (cache_ret'.op = "add" /\ cache_ret'.id = k
                     /\ cache_now > seen_store[k] + SEEN_ORDERS_MAX_AGE_HOURS)
                     => (k \in DOMAIN seen_store' /\ seen_store'[k] = cache_now)
          /\ \A k \in OrderIds \ DOMAIN seen_store :
               /\ (cache_ret'.op = "contains" /\ cache_ret'.id = k) => ~cache_ret'.ret
               /\ (cache_ret'.op = "add" /\ cache_ret'.id = k)
                     => (k \in DOMAIN seen_store' /\ seen_store'[k] = cache_now)
          /\ cache_ret'.op \in {"contains", "add"}
               => \A k \in DOMAIN seen_store' :
                      cache_now - seen_store'[k] <= SEEN_ORDERS_MAX_AGE_HOURS
          /\ cache_ret'.op = "build"
               => \A k \in EmittedIds(cache_ret'.out) :
                      /\ Occurrences(cache_ret'.out, k) = 1
                      /\ last_emit[k] # NoTime
                           => cache_now - last_emit[k] > SEEN_ORDERS_MAX_AGE_HOURS]_vars

\* an id that was emitted once has expired and is reported unseen
C12_Witness ==
    /\ cache_ret.op = "contains"
    /\ ~cache_ret.ret
    /\ last_emit[cache_ret.id] # NoTime

--------------------------------------------------------------------------
(* Claims about decide_direction, checked under SpecPure *)

Inverse(side) == [trade_side |-> Opposite(side), trade_mode |-> "inverse"]

Momentum(side) == [trade_side |-> side, trade_mode |-> "momentum"]

\* the two hybrid conditions as the claim states them, on the RSI value
\* compute_rsi returns (rsi) and the frame's VWAP and last close
RsiHolds(side, c, rsi) ==
    IF side = "sell" THEN rsi > c.rsi_overbought ELSE rsi < c.rsi_oversold

VwapHolds(side, c, df) ==
    IF side = "sell"
    THEN df.close * BandDen > df.vwap * BandDen + df.vwap * c.vwap_band
    ELSE df.close * BandDen < df.vwap * BandDen - df.vwap * c.vwap_band

\* C13: fade mode returns (opposite, inverse), follow mode (cluster_side,
\* momentum); hybrid mode with indicators available returns (cluster_side,
\* momentum) exactly when both conditions hold (hybrid_require_both) or at
\* least one holds (otherwise), and (opposite, inverse) in every other case.
C13_DirectionTable ==
    pure_call.fn = "decide_direction" =>
        LET side == pure_call.cluster_side
            c    == pure_call.c
            df   == pure_call.df
            rc   == RsiHolds(side, c, ComputeRsi(df))
            vc   == VwapHolds(side, c, df)
        IN  /\ c.direction_mode = "inverse" => pure_call.ret = Inverse(side)
            /\ c.direction_mode = "momentum" => pure_call.ret = Momentum(side)
            /\ (c.direction_mode = "hybrid" /\ df.fetch_ok)
                 => /\ pure_call.ret \in {Inverse(side), Momentum(side)}
                    /\ pure_call.ret = Momentum(side)
                         <=> IF c.hybrid_require_both THEN rc /\ vc ELSE rc \/ vc

\* a hybrid call that followed the crowd on one condition alone
C13_Witness ==
    /\ pure_call.fn = "decide_direction"
    /\ pure_call.c.direction_mode = "hybrid"
    /\ ~pure_call.c.hybrid_require_both
    /\ pure_call.df.fetch_ok
    /\ ~RsiHolds(pure_call.cluster_side, pure_call.c, ComputeRsi(pure_call.df))
    /\ pure_call.ret.trade_mode = "momentum"

\* C14: in hybrid mode a failed indicator fetch or computation, or a history
\* too short for the RSI, yields (opposite, inverse).
C14_FailureFades ==
    (/\ pure_call.fn = "decide_direction"
     /\ pure_call.c.direction_mode = "hybrid"
     /\ (~pure_call.df.fetch_ok \/ pure_call.df.rsi_raw = NaN))
        => pure_call.ret = Inverse(pure_call.cluster_side)

--------------------------------------------------------------------------
(* Claims about the side selection of add_events, checked under SpecPure *)

--------------------------------------------------------------------------
(* Claims about the entry gates, checked under SpecGates *)

NumTracked(e) == Cardinality(Tracked(e)) + Cardinality(DOMAIN pending_orders[e])

\* the step is entry_step of engine e and it placed a pending order
Places(e) == pc = "entry" /\ idx = e /\ next_ticket' # next_ticket

\* C17: entry_step places no order when tracked open positions plus pending
\* orders have reached max_open_positions, and in every state the tracked
\* open positions plus pending orders of an engine are at most
\* max_open_positions.
C17_CapacityNeverExceeded ==
    /\ [][\A e \in Engines :
             Places(e) => NumTracked(e) < cfg[e].max_open_positions]_vars
    /\ [](\A e \in Engines : NumTracked(e) <= cfg[e].max_open_positions)

\* C18: an engine tracks at most one pending order in every state, and
\* entry_step places an order only when pending_orders is empty.
C18_SinglePending ==
    /\ [](\A e \in Engines : Cardinality(DOMAIN pending_orders[e]) <= 1)
    /\ [][\A e \in Engines : Places(e) => DOMAIN pending_orders[e] = {}]_vars

\* an engine with room for two positions holds one and has placed its
\* second order
C18_Witness ==
    /\ cfg[1].max_open_positions = 2
    /\ Tracked(1) # {}
    /\ Cardinality(DOMAIN pending_orders[1]) = 1
    /\ placed_in_tick
    /\ next_ticket = 3

\* C19: entry_step places no order at a time before cooldown_until; a
\* placement sets cooldown_until to now + TRADE_COOLDOWN_SECONDS; an engine
\* that places an order has placed none in the cooldown duration before.
C19_CooldownSpacing ==
    [][\A e \in Engines :
          Places(e) =>
             /\ ~(cooldown_until[e] # NoTime /\ now < cooldown_until[e])
             /\ cooldown_until'[e] = now + TRADE_COOLDOWN_SECONDS \div 60
             /\ recent_place[e] = NoTime]_vars

\* the engine has just placed its second order
C19_Witness ==
    /\ placed_in_tick
    /\ next_ticket = 3
    /\ recent_place[1] = now
    /\ pc = "entry" /\ idx = 2

--------------------------------------------------------------------------
(* Claims about the end-to-end scenario, checked under SpecScenario *)

\* the step is entry_step of engine 1, idle (nothing tracked, no cooldown),
\* ingesting the event that brings the distinct buy participants to K
ThirdBuyIngested ==
    /\ pc = "entry" /\ idx = 1 /\ idx' = 2
    /\ NumTracked(1) = 0
    /\ ~(cooldown_until[1] # NoTime /\ now < cooldown_until[1])
    /\ Count(events[1], "buy") < cfg[1].k_unique
    /\ Count(events'[1], "buy") = cfg[1].k_unique

\* the engine tracks exactly one pending order: a sell in inverse mode,
\* resting at ask + limit_offset
OneSellFadeOrder ==
    /\ Cardinality(DOMAIN pending_orders'[1]) = 1
    /\ \A t \in DOMAIN pending_orders'[1] :
          /\ pending_meta'[1][t].trade_side = "sell"
          /\ pending_meta'[1][t].trade_mode = "inverse"
          /\ venue_orders'[t].side = "sell"
          /\ venue_orders'[t].price = MidPx + env.spread + cfg[1].limit_offset

\* every order placed rests at bid - offset (buy) or ask + offset (sell)
OffsetFromQuote ==
    \A e \in Engines :
        Places(e) =>
            venue_orders'[next_ticket].price =
                IF venue_orders'[next_ticket].side = "buy"
                THEN MidPx - cfg[e].limit_offset
                ELSE MidPx + env.spread + cfg[e].limit_offset

--------------------------------------------------------------------------
(* Further claims about the cluster detector, checked under SpecCluster *)

\* C21: a call of add_events that returns no signal leaves last_cluster_time
\* and last_cluster_side as they were; a call that returns a signal records
\* that side and the time of the window's last event; a call with an empty
\* batch on an empty window changes nothing of the detector.
C21_RefractoryStateOnlyOnSignal ==
    [][/\ cluster_ret'[1] = "none"
            => /\ last_cluster_time'[1] = last_cluster_time[1]
               /\ last_cluster_side'[1] = last_cluster_side[1]
       /\ cluster_ret'[1] # "none"
            => /\ last_cluster_side'[1] = cluster_ret'[1]
               /\ last_cluster_time'[1] = events'[1][Len(events'[1])].time
       /\ (pure_call'.empty_batch /\ events[1] = <<>>)
            => /\ events'[1] = <<>>
               /\ cluster_ret'[1] = "none"
               /\ last_cluster_time'[1] = NoTime
               /\ last_cluster_side'[1] = "none"]_vars

\* a call was suppressed by the refractory period: the window holds K
\* participants of the last cluster's side and nothing was returned
C21_Witness ==
    /\ cluster_ret[1] = "none"
    /\ last_cluster_time[1] # NoTime
    /\ ~pure_call.empty_batch
    /\ Count(events[1], last_cluster_side[1]) >= cfg[1].k_unique
    /\ events[1][Len(events[1])].time # last_cluster_time[1]

\* C22: a call of add_events with an empty batch leaves the window,
\* last_cluster_time and last_cluster_side as they were and returns no
\* signal, from every state the detector reaches.
C22_EmptyBatchIdempotent ==
    [][pure_call'.empty_batch
          => /\ events'[1] = events[1]
             /\ last_cluster_time'[1] = last_cluster_time[1]
             /\ last_cluster_side'[1] = last_cluster_side[1]
             /\ cluster_ret'[1] = "none"]_vars

\* an empty batch was handed to a detector whose window holds a full cluster
C22_Witness ==
    /\ pure_call.fn = "add_events"
    /\ pure_call.empty_batch
    /\ last_cluster_time[1] # NoTime
    /\ Count(events[1], last_cluster_side[1]) >= cfg[1].k_unique

\* the events of a side that are the first of their participant on that side
FirstOfUser(evs, side) ==
    {i \in 1..Len(evs) :
        /\ evs[i].side = side
        /\ \A j \in 1..(i - 1) : ~(evs[j].side = side /\ evs[j].user_id = evs[i].user_id)}

DistinctSelection(evs, k_unique) ==
    IF Cardinality(FirstOfUser(evs, "buy")) >= k_unique THEN "buy"
    ELSE IF Cardinality(FirstOfUser(evs, "sell")) >= k_unique THEN "sell"
    ELSE "none"

\* C23: what add_events returns follows the number of distinct participants
\* of each side in the window (a signal is the side that number selects, and
\* that side is returned when no cluster was recorded before), and a call
\* that adds only events of participants already in the window on the same
\* side does not increase a side's count.
C23_CountsDistinctUsers ==
    [][/\ cluster_ret'[1] \in {"none", DistinctSelection(events'[1], cfg[1].k_unique)}
       /\ (last_cluster_time[1] = NoTime /\ events'[1] # events[1])
            => cluster_ret'[1] = DistinctSelection(events'[1], cfg[1].k_unique)
       /\ (\A i \in 1..Len(events'[1]) : \E j \in 1..Len(events[1]) :
              /\ events[1][j].side = events'[1][i].side
              /\ events[1][j].user_id = events'[1][i].user_id)
            => \A sd \in Sides : Count(events'[1], sd) <= Count(events[1], sd)]_vars

\* one participant has K events of one side in the window and no signal was
\* returned
C23_Witness ==
    /\ cluster_ret[1] = "none"
    /\ last_cluster_time[1] = NoTime
    /\ \E sd \in Sides :
          /\ Cardinality({i \in 1..Len(events[1]) : events[1][i].side = sd}) >= cfg[1].k_unique
          /\ Cardinality(FirstOfUser(events[1], sd)) = 1

--------------------------------------------------------------------------
(* Claims about the except clauses of the loop, checked under SpecFaults *)

\* C24: an exception raised by any step of a tick leaves run_loop at the
\* start of a new tick, and run_loop has left the loop only after a risk
\* breach or a keyboard interrupt.
C24_LoopSurvivesExceptions ==
    /\ [][(pure_call'.fn = "exception" /\ pure_call' # pure_call)
             => pc' = "start"]_vars
    /\ [](pc = "start" => ENABLED (\E dt \in {0, 1} : TickStart(dt)))
    /\ [](pc \notin TickSteps
             => \/ pc = "halted" /\ breach
                \/ pc = "interrupted" /\ pure_call.fn = "interrupt")

\* a tick runs its entry step after an exception was raised by the entry
\* step of an earlier tick
C24_Witness ==
    /\ pure_call.fn = "exception" /\ pure_call.step = "entry"
    /\ pc = "trail"
    /\ next_ticket > 1

\* C27: a write_state call, whether the snapshot was written or failed,
\* returns to the loop without raising, the loop goes on to the next tick,
\* and no engine's window, refractory state, pending orders, open positions
\* or cooldown, nor anything at the venue, is changed by it.
C27_WriteStateReadOnly ==
    [][(pc = "snapshot" /\ pc' # pc /\ pure_call'.fn = "write_state")
          => /\ pure_call'.outcome = "returned"
             /\ pc' = "start"
             /\ UNCHANGED <<clusterVars, engineVars, venueVars, riskVars, ntz_active>>]_vars

\* a failed snapshot after a tick in which engine 1 placed an order
C27_Witness ==
    /\ pure_call.fn = "write_state" /\ ~pure_call.ok
    /\ pc = "start"
    /\ placed_in_tick
    /\ pending_orders[1] # EmptyMap

--------------------------------------------------------------------------
(* Claims about pending-order management, checked under SpecGates *)

\* the tickets of engine e that manage_pending_orders finds live at the
\* venue and at or past the TTL
Expired(e) ==
    {t \in DOMAIN pending_orders[e] :
        /\ t \in DOMAIN venue_orders
        /\ venue_orders[t].magic = cfg[e].magic
        /\ now - pending_orders[e][t] >= PENDING_ORDER_TIMEOUT_MIN}

PendingPass(e) == pc = "pending" /\ idx = e /\ (idx' # idx \/ pc' # pc)

\* C25: when the venue rejects the cancel of a pending order that is past
\* its TTL (the order is still at the venue after the pass), the engine
\* keeps tracking the order, so that a later pass cancels it again.
C25_RejectedCancelStaysTracked ==
    [][\A e \in Engines : PendingPass(e) =>
          \A t \in Expired(e) :
              t \in DOMAIN venue_orders'
                  => (t \in DOMAIN pending_orders'[e] /\ t \in DOMAIN pending_meta'[e])]_vars

--------------------------------------------------------------------------
(* Claims about the per-engine handlers of a tick, checked under Spec *)

HandlerSteps == {"refresh", "pending", "entry", "trail", "time_exit"}

HandlerRuns(e) == pc \in HandlerSteps /\ idx = e /\ (idx' # idx \/ pc' # pc)

\* C26: a run of refresh_and_log_closes, manage_pending_orders, entry_step,
\* manage_trailing_stops or manage_time_exits for one engine leaves the
\* window, the refractory state, the pending orders, the open positions and
\* cooldown_until of every other engine unchanged.
C26_EnginesIsolated ==
    [][\A e \in Engines : HandlerRuns(e) =>
          \A o \in Engines \ {e} :
              /\ events'[o] = events[o]
              /\ last_cluster_time'[o] = last_cluster_time[o]
              /\ last_cluster_side'[o] = last_cluster_side[o]
              /\ pending_orders'[o] = pending_orders[o]
              /\ pending_meta'[o] = pending_meta[o]
              /\ open_positions'[o] = open_positions[o]
              /\ cooldown_until'[o] = cooldown_until[o]]_vars

\* refresh_and_log_closes has just picked up a fill of engine 1 (window
\* cleared, cooldown started now) while engine 2 holds events in its window
C26_Witness ==
    /\ pc = "pending" /\ idx = 1
    /\ open_positions[1] # EmptyMap
    /\ events[1] = <<>>
    /\ cooldown_until[1] = now + TRADE_COOLDOWN_SECONDS \div 60
    /\ events[2] # <<>>

--------------------------------------------------------------------------
(* Claims about the life of a pending record, checked under SpecLive *)

\* ticket t of engine e is tracked and is due for removal: no longer among
\* the venue's orders (filled or removed there), or at or past the TTL
DueForRemoval(e, t) ==
    /\ t \in DOMAIN pending_orders[e]
    /\ \/ t \notin DOMAIN venue_orders
       \/ now - pending_orders[e][t] >= PENDING_ORDER_TIMEOUT_MIN

Untracked(e, t) == t \notin DOMAIN pending_orders[e] /\ t \notin DOMAIN pending_meta[e]

\* C29: a pending-management pass leaves no record of an order that was
\* filled, removed at the venue or at its TTL; under a loop that keeps
\* ticking every such record is eventually removed from pending_orders and
\* pending_meta, and so is every record whose TTL the clock can still reach.
C29_PendingEventuallyDestroyed ==
    /\ [][\A e \in Engines : PendingPass(e) =>
             \A t \in Tickets : DueForRemoval(e, t) => Untracked(e, t)']_vars
    /\ \A e \in Engines : \A t \in Tickets :
          (DueForRemoval(e, t) ~> Untracked(e, t))
    /\ \A e \in Engines : \A t \in Tickets :
          ((t \in DOMAIN pending_orders[e]
              /\ pending_orders[e][t] + PENDING_ORDER_TIMEOUT_MIN <= MaxNow)
                 ~> Untracked(e, t))

\* a pass has removed the record of an order of engine 1 that was filled
\* after refresh_and_log_closes ran: the position is at the venue, neither
\* tracked as open nor as pending
C29_Witness ==
    /\ pc = "refresh" /\ idx = 2
    /\ \E t \in DOMAIN venue_positions :
          /\ venue_positions[t].magic = cfg[1].magic
          /\ t \notin DOMAIN open_positions[1]
          /\ Untracked(1, t)

--------------------------------------------------------------------------
(* Claims about fill detection, checked under SpecGates *)

\* the live venue positions of engine e that the engine does not track yet
NewFills(e) ==
    {t \in DOMAIN venue_positions :
        venue_positions[t].magic = cfg[e].magic /\ t \notin DOMAIN open_positions[e]}

RefreshPass(e) == pc = "refresh" /\ idx = e /\ pc' # pc

\* C30: when refresh_and_log_closes finds a live position of the engine that
\* it does not track, then after the call the position is tracked, its
\* ticket is in neither pending map, the window is empty and the refractory
\* state reset, and cooldown_until is at least the detection time plus
\* TRADE_COOLDOWN_SECONDS; a later signal is computed from what the window
\* holds after that and the batch of its own tick only.
C30_FillDetection ==
    /\ [][\A e \in Engines : (RefreshPass(e) /\ NewFills(e) # {}) =>
             /\ \A t \in NewFills(e) :
                   t \in DOMAIN open_positions'[e] /\ Untracked(e, t)'
             /\ events'[e] = <<>>
             /\ last_cluster_time'[e] = NoTime /\ last_cluster_side'[e] = "none"
             /\ cooldown_until'[e] >= now + TRADE_COOLDOWN_SECONDS \div 60]_vars
    /\ [][\A e \in Engines :
             (pc = "entry" /\ idx = e /\ (idx' # idx \/ pc' # pc) /\ events'[e] # events[e])
                => /\ IsSuffix(events'[e], events[e] \o new_events)
                   /\ cluster_ret'[e] # "none"
                        => Cardinality(FirstOfUser(events'[e], cluster_ret'[e])) >= cfg[e].k_unique]_vars

\* refresh_and_log_closes has just picked up the fill of an order of engine 1
\* whose pending record it removed
C30_Witness ==
    /\ pc = "pending" /\ idx = 1
    /\ events[1] = <<>> /\ last_cluster_time[1] = NoTime
    /\ cooldown_until[1] = now + TRADE_COOLDOWN_SECONDS \div 60
    /\ \E t \in DOMAIN open_positions[1] : Untracked(1, t) /\ t \notin DOMAIN venue_orders
    /\ recent_place[1] # NoTime /\ recent_place[1] < now

--------------------------------------------------------------------------
(* Claims about the time exit, checked under Spec *)

\* the tracked positions of engine e that manage_time_exits finds at or past
\* hold_minutes
DueForTimeExit(e) ==
    IF cfg[e].use_time_exit /\ cfg[e].hold_minutes > 0
    THEN {t \in DOMAIN open_positions[e] :
             now - open_positions[e][t].entry_time >= cfg[e].hold_minutes}
    ELSE {}

TimeExitPass(e) == pc = "time_exit" /\ idx = e /\ (idx' # idx \/ pc' # pc)

\* C31: when the venue rejects the close of a position that reached
\* hold_minutes (the position is still at the venue after the pass), the
\* engine keeps tracking the position.
C31_RejectedCloseStaysTracked ==
    [][\A e \in Engines : TimeExitPass(e) =>
          \A t \in DueForTimeExit(e) :
              t \in DOMAIN venue_positions' => t \in DOMAIN open_positions'[e]]_vars

--------------------------------------------------------------------------
(* Claims about the modify threshold of manage_trailing_stops, checked     *)
(* under Spec                                                              *)

TrailPass(e) == pc = "trail" /\ idx = e /\ pc' # pc

\* C32: in a manage_trailing_stops pass the stop the engine holds for a
\* position changes only by more than 2 points, the breakeven move included
\* (the stop changes exactly when a modify is sent).
C32_ModifyOnlyAboveThreshold ==
    [][\A e \in Engines : TrailPass(e) =>
          \A t \in DOMAIN open_positions[e] \cap DOMAIN open_positions'[e] :
              open_positions'[e][t].sl_price # open_positions[e][t].sl_price
                 => Abs(open_positions'[e][t].sl_price - open_positions[e][t].sl_price) > 2]_vars

--------------------------------------------------------------------------
(* Claims about the no-trade zone and the session gate, checked under Spec *)

AfterZoneCheck == {"risk", "fetch", "entry", "trail", "time_exit", "snapshot"}

InZoneStep == pc = "ntz" /\ pc' = "start"

--------------------------------------------------------------------------
(* Claims about the order of a tick's steps, checked under SpecGates *)

\* C34: the entry loop is entered only from the fetch that follows a risk
\* evaluation without breach, it runs entry_step for engine 1, 2, ... in
\* turn, and the management loop is entered only when entry_step has run
\* for the last engine; from the management loop the tick goes to the
\* snapshot, never back to an entry step.
C34_TickOrder ==
    /\ [][(pc' = "fetch" /\ pc # "fetch") => (pc = "risk" /\ ~breach')]_vars
    /\ [][(pc' = "entry" /\ pc # "entry") => (pc = "fetch" /\ idx' = 1)]_vars
    /\ [][(pc = "entry" /\ <<pc, idx>>' # <<pc, idx>>)
             => \/ pc' = "entry" /\ idx' = idx + 1
                \/ pc' = "trail" /\ idx = NumEngines /\ idx' = 1]_vars
    /\ [][(pc' \in {"trail", "time_exit"} /\ pc \notin {"trail", "time_exit"})
             => (pc = "entry" /\ idx = NumEngines)]_vars
    /\ [][(pc \in {"trail", "time_exit"} /\ pc' \notin {"trail", "time_exit"})
             => (pc' = "snapshot" /\ pc = "time_exit" /\ idx = NumEngines)]_vars

\* the management loop runs for engine 1 in a tick whose entry loop placed
\* an order
C34_Witness == pc = "trail" /\ idx = 1 /\ placed_in_tick /\ ~breach

\* C35: every tick evaluates the daily loss limits: a tick that has passed
\* the health check comes back to the top of the loop only from the
\* end-of-tick snapshot, which follows the risk evaluation, and never from
\* the zone check.
C35_BreakerEveryTick ==
    [][(pc # "start" /\ pc' = "start") => pc = "snapshot"]_vars

--------------------------------------------------------------------------
(* A claim about the order of the cluster window, checked under SpecCluster *)

\* C36: after every add_events call the window is sorted by event open time
\* in nondecreasing order.
C36_WindowSorted ==
    \A i \in 1..(Len(events[1]) - 1) : events[1][i].time <= events[1][i + 1].time

--------------------------------------------------------------------------
(* Claims about the life of a ticket, checked under SpecGates *)

\* C37: no ticket is at once in pending_orders and in open_positions of an
\* engine (in every state, so also at the end of a tick), and a ticket
\* enters open_positions only in refresh_and_log_closes, as a live venue
\* position with the engine's magic that the engine did not track before.
C37_OneLifecycleState ==
    /\ [](\A e \in Engines : DOMAIN pending_orders[e] \cap DOMAIN open_positions[e] = {})
    /\ [][\A e \in Engines : \A t \in DOMAIN open_positions'[e] \ DOMAIN open_positions[e] :
             /\ pc = "refresh" /\ idx = e
             /\ t \in NewFills(e)]_vars

\* a tick ends with one ticket of engine 1 open and another one pending
C37_Witness ==
    /\ pc = "snapshot"
    /\ open_positions[1] # EmptyMap
    /\ pending_orders[1] # EmptyMap

EntryPass(e) == pc = "entry" /\ idx = e /\ (idx' # idx \/ pc' # pc)

\* C38: an entry step in which the venue takes no new order (the request was
\* not built for want of a quote or of a lot size, or the venue rejected it)
\* leaves the engine's pending_orders, pending_meta, open_positions and
\* cooldown_until unchanged; a pending record and a cooldown restart come
\* only with an order the venue has just accepted with the engine's magic.
C38_FailedPlacementLeavesNoTrace ==
    [][\A e \in Engines : EntryPass(e) =>
          /\ venue_orders' = venue_orders
                => /\ pending_orders'[e] = pending_orders[e]
                   /\ pending_meta'[e] = pending_meta[e]
                   /\ open_positions'[e] = open_positions[e]
                   /\ cooldown_until'[e] = cooldown_until[e]
          /\ (pending_orders'[e] # pending_orders[e] \/ cooldown_until'[e] # cooldown_until[e])
                => \E t \in DOMAIN venue_orders' \ DOMAIN venue_orders :
                      /\ venue_orders'[t].magic = cfg[e].magic
                      /\ DOMAIN pending_orders'[e] = DOMAIN pending_orders[e] \cup {t}
                      /\ t \in DOMAIN pending_meta'[e]
                      /\ cooldown_until'[e] = now + TRADE_COOLDOWN_SECONDS \div 60]_vars

\* entry_step of engine 1 has returned a signal when there was room and no
\* cooldown, and no order was ever placed
C38_Witness ==
    /\ pc = "entry" /\ idx = 2
    /\ cluster_ret[1] # "none"
    /\ next_ticket = 1
    /\ pending_orders[1] = EmptyMap /\ cooldown_until[1] = NoTime

\* what the venue holds with the magic of engine e: resting orders and open
\* positions
LiveAtVenue(e) ==
    Cardinality({t \in DOMAIN venue_orders : venue_orders[t].magic = cfg[e].magic})
      + Cardinality({t \in DOMAIN venue_positions : venue_positions[t].magic = cfg[e].magic})

\* C39: the venue never holds more resting orders plus open positions with
\* an engine's magic than the engine's max_open_positions.
C39_VenueExposureBounded ==
    \A e \in Engines : LiveAtVenue(e) <= cfg[e].max_open_positions

--------------------------------------------------------------------------
(* A claim about repeated fill detection, checked under Spec *)

\* C40: a position that an engine tracks (refresh_and_log_closes has reported
\* its fill) stays tracked for as long as it is open at the venue, so that it
\* is never again among the untracked live positions that
\* refresh_and_log_closes takes for new fills; this also when a close sent
\* by the time exit or by flatten_all is rejected.
C40_FillDetectedOnce ==
    [][\A e \in Engines : \A t \in DOMAIN open_positions[e] :
          (LivePosition(venue_positions, t, cfg[e].magic)
              /\ LivePosition(venue_positions', t, cfg[e].magic))
             => t \in DOMAIN open_positions'[e]]_vars

==========================================================================
